---------------------------- MODULE Spec2Model ----------------------------
(***************************************************************************)
(* Order lifecycle of the latency-arb engine's Executor                    *)
(* (src/src/execution/executor.js, first revision in the file, lines       *)
(* 1-824) together with the RiskManager ledger it drives.                  *)
(*                                                                         *)
(* Execution model: one JavaScript event loop.  Every action below is one  *)
(* synchronous run of code between two suspension points (await), so       *)
(* every state of the model is a state in which no executor step is        *)
(* mid-execution.                                                          *)
(*                                                                         *)
(* Units: prices are integer cents (1..99), quantities are whole tokens,   *)
(* money is price * quantity (cents).  Floating-point rounding is not      *)
(* modelled.  A JavaScript null/undefined is the empty sequence <<>> and   *)
(* a present value v is <<v>>.                                             *)
(*                                                                         *)
(* Time is abstract: aged[t] says that Date.now() - openTime >= MAX_HOLD_MS*)
(* for trade t; the safety timeout (MAX_HOLD_MS + SAFETY_BUFFER_MS) can    *)
(* fire only once the trade is aged.  An interval tick of the monitor can  *)
(* fire while an earlier tick of the same trade is suspended in an await.  *)
(*                                                                         *)
(* The last section models the Strategy of src/src/engine/calibration.js   *)
(* (lines 154-396): market rotation, strike capture and signal emission,   *)
(* with one tick of `now` standing for 30 seconds.                         *)
(***************************************************************************)
EXTENDS Integers, Sequences, FiniteSets, TLC

\* ------------------------------------------------------------------ bounds
NumTrades == 1          \* trade ids handed out by the exchange: 1..NumTrades
MaxQty    == 2          \* largest token quantity of an entry order

\* ------------------------------------------------------- program constants
MAX_TRADE_HISTORY == 500      \* executor.js:15
Bankroll0         == 130000   \* config.js:84, BANKROLL 1300 USD in cents
ProfitTargetPct   == 8        \* config.js:93, PROFIT_TARGET_PCT 0.08
StopLossPct       == 15       \* config.js:94, STOP_LOSS_PCT 0.15
MaxDrawdownPct    == 25       \* config.js:91, maxDrawdownPct 0.25
DailyLossLimit    == 5000     \* config.js:92, DAILY_LOSS_LIMIT 50 USD in cents
CooldownTicks     == 2        \* config.js:88, COOLDOWN_MS, in ticks of `now`

TradeIds == 1..NumTrades
Labels   == {"BTC/5m", "ETH/5m"}
SignalLabels   == {"BTC/5m"}   \* markets the session receives signals for
SnapshotLabels == {"ETH/5m"}   \* markets of the positions in the saved state
Callers  == {"mon", "saf"}

\* ------------------------------------------------------------ input values
SignalEntryPrice == 55        \* signal.entryPrice of every signal (cents)
ModelProb        == 65        \* signal.modelProb (cents); direction BUY_YES
EntryAvgPrices   == {<<>>, <<54>>}   \* avgPrice reported for an entry fill
ExitAvgPrices    == {<<>>, <<64>>}   \* avgPrice reported for an exit fill
BookMids         == {55, 64}         \* book.mid of a valid order book

\* --------------------------------------------------------- null handling
Null == <<>>
Some(v) == <<v>>
\* a ?? b
OrElse(a, b) == IF a = Null THEN b ELSE a[1]

Max(a, b) == IF a >= b THEN a ELSE b
Min(a, b) == IF a <= b THEN a ELSE b


\* ------------------------------------------------------------------- state
VARIABLES
    oracle,        \* the fetchPriceAtTimestamp call under study: inputs, result
    strat,         \* the Strategy of one market: its fields and what it emitted
    expiry,        \* per trade id, signal.isCertainty and signal.expiresAt
                   \* against Date.now(): "none" (not a certainty signal),
                   \* "ahead" (now < expiresAt), "past" (now >= expiresAt)
    dryRun,        \* CONFIG.execution.dryRun
    now,           \* Date.now(), in ticks
    gate,          \* the engine's last signal decision (router and canTrade)
    poll,          \* the _waitForFill call under study: position and locals
    booted,        \* restorePositions has run (startup is over)
    snapshots,     \* the persisted openSnapshot handed to restorePositions
    trade,         \* the Trade objects, by id (status "NONE": not created)
    openOrders,    \* Executor.openOrders: the Map's keys in insertion order
    risk,          \* RiskManager: bankroll, dailyPnl, peakBankroll, openPositions
    pnlStats,      \* Executor.pnlStats (RunningStats): n and sum
    tradeHistory,  \* Executor.tradeHistory: ids of the pushed trade objects
    tradeEvents,   \* per trade id, the onTradeEvent/logTrade events emitted
    riskCalls,     \* per trade id, the P&L arguments passed to the risk manager
    alerts,        \* per trade id, the kinds of sendAlert calls made
    fillRateStats, \* Executor.fillRateStats
    exe,           \* per trade id, the execute() call that creates it
    monitor,       \* per trade id, the setInterval handle: "off", "on", "cleared"
    proc,          \* per trade id and caller, the callback's position and locals
    aged,          \* per trade id, Date.now() - openTime >= MAX_HOLD_MS
    safetyLog,     \* per trade id, what the safety timeout saw and got
    shutdown,      \* position of cancelAllOrders
    rotation       \* position and locals of cancelOrdersForLabel

vars == << oracle, strat, expiry, dryRun, now, gate, poll, booted, snapshots, trade, openOrders, risk, pnlStats,
           tradeHistory, tradeEvents, riskCalls, alerts, fillRateStats, exe,
           monitor, proc, aged, safetyLog, shutdown, rotation >>

\* ------------------------------------------------------- Map and list help
EmptyMap == [x \in {} |-> 0]
\* An emitted trade event; filledQty is 0 except on "partial_close".
Event(type, filledQty) == [type |-> type, filledQty |-> filledQty]
CountEvents(seq, type) == Cardinality({i \in 1..Len(seq) : seq[i].type = type})
Put(f, k, v) == [x \in (DOMAIN f) \cup {k} |-> IF x = k THEN v ELSE f[x]]
Remove(f, k) == [x \in (DOMAIN f) \ {k} |-> f[x]]
Has(seq, k) == \E i \in 1..Len(seq) : seq[i] = k
Without(seq, k) == SelectSeq(seq, LAMBDA x : x # k)
Count(seq, k) == Cardinality({i \in 1..Len(seq) : seq[i] = k})

RECURSIVE SumSizes(_, _)
SumSizes(positions, ids) ==
    IF ids = {} THEN 0
    ELSE LET k == CHOOSE x \in ids : TRUE
         IN positions[k].size + SumSizes(positions, ids \ {k})

RECURSIVE SumSeq(_)
SumSeq(seq) == IF seq = <<>> THEN 0 ELSE Head(seq) + SumSeq(Tail(seq))

\* ------------------------------------------------------------ RiskManager
\* risk.openPosition({id, side, size, entryPrice})
OpenPosition(r, id, size, entryPrice) ==
    [r EXCEPT !.bankroll = @ - size,
              !.openPositions = Put(@, id, [size |-> size, entryPrice |-> entryPrice])]

\* risk.applyPartialClose(id, {realizedNotional, realizedPnl})
ApplyPartialClose(r, id, realizedNotional, realizedPnl) ==
    IF id \notin DOMAIN r.openPositions THEN r
    ELSE LET bank == r.bankroll + realizedNotional + realizedPnl
         IN [r EXCEPT !.openPositions[id].size = @ - realizedNotional,
                      !.bankroll = bank,
                      !.dailyPnl = @ + realizedPnl,
                      !.peakBankroll = Max(@, bank)]

\* risk.closePosition(id, pnl): no-op when the id is not present
ClosePosition(r, id, pnl) ==
    IF id \notin DOMAIN r.openPositions THEN r
    ELSE LET bank == r.bankroll + r.openPositions[id].size + pnl
         IN [r EXCEPT !.openPositions = Remove(@, id),
                      !.bankroll = bank,
                      !.dailyPnl = @ + pnl,
                      !.peakBankroll = Max(@, bank)]

\* RunningStats.push(x)
StatsPush(st, x) == [n |-> st.n + 1, sum |-> st.sum + x]

\* ------------------------------------------------- Executor: bookkeeping
\* The part of the state the synchronous bookkeeping code reads and writes.
Books ==
    [trade |-> trade, openOrders |-> openOrders, risk |-> risk,
     pnlStats |-> pnlStats, tradeHistory |-> tradeHistory,
     tradeEvents |-> tradeEvents, riskCalls |-> riskCalls]

Commit(b) ==
    /\ trade' = b.trade
    /\ openOrders' = b.openOrders
    /\ risk' = b.risk
    /\ pnlStats' = b.pnlStats
    /\ tradeHistory' = b.tradeHistory
    /\ tradeEvents' = b.tradeEvents
    /\ riskCalls' = b.riskCalls

\* this.tradeHistory.push(trade); shift when longer than maxHistory
HistoryPush(h, t) ==
    LET pushed == Append(h, t)
    IN IF Len(pushed) > MAX_TRADE_HISTORY THEN Tail(pushed) ELSE pushed

\* The fields _finalizeClose writes on the trade object.
FinalizeTrade(tr, reason, exitPrice, pnl, estimated) ==
    [tr EXCEPT !.status = "CLOSED",
               !.pnl = Some(tr.realizedPnl + pnl),
               !.exitPrice = Some(exitPrice),
               !.exitReason = reason,
               !.estimatedExit = Some(estimated)]

\* The P&L _finalizeClose passes to the risk manager: the final segment only.
FinalizeRiskPnl(tr, pnl) == pnl

\* _finalizeClose without its risk.closePosition call.
FinalizeRiskSkipped(r, t, pnl) == r

\* Line 168: this.risk.closePosition(trade.id, pnl)
FinalizeRisk(r, t, pnl) == ClosePosition(r, t, pnl)

\* The sample _finalizeClose pushes to pnlStats: the trade's total P&L.
FinalizeStatsPnl(tr, pnl) == tr.realizedPnl + pnl

\* _finalizeClose(trade, {reason, exitPrice, pnl, estimated}); returns true
FinalizeClose(b, t, reason, exitPrice, pnl, estimated) ==
    LET tr == b.trade[t]
    IN [b EXCEPT
          !.trade[t] = FinalizeTrade(tr, reason, exitPrice, pnl, estimated),
          !.openOrders = Without(@, t),
          !.risk = FinalizeRisk(@, t, FinalizeRiskPnl(tr, pnl)),
          !.riskCalls[t] = Append(@, FinalizeRiskPnl(tr, pnl)),
          !.pnlStats = StatsPush(@, FinalizeStatsPnl(tr, pnl)),
          !.tradeHistory = HistoryPush(@, t),
          !.tradeEvents[t] = Append(@, Event("close", 0))]


\* ----------------------------------------------------------- trade objects
NoTrade ==
    [status |-> "NONE", label |-> "", simulated |-> FALSE, entryPrice |-> 0,
     tokenQty |-> 0, size |-> 0, initialSize |-> Null, realizedPnl |-> 0,
     pnl |-> Null, currentMid |-> Null, exitPrice |-> Null,
     exitReason |-> "", estimatedExit |-> Null]

\* skipped: an interval tick ran during this call and returned at line 497.
IdleProc == [pc |-> "off", mid |-> 0, reason |-> "", req |-> 0,
             skipped |-> FALSE]
IdleExe  == [pc |-> "idle", label |-> "", stage |-> "", price |-> 0,
             req |-> 0, reprices |-> 0, fill |-> Null, ret |-> ""]
DoneExe  == [IdleExe EXCEPT !.pc = "done"]
\* fired: trade.status when the setTimeout callback ran; exited: what its
\* _exitPosition returned; blocked: that call was refused at the entry guard
\* because the status was CLOSING.
IdleSafetyLog == [fired |-> "", exited |-> "", blocked |-> FALSE]
IdleRotation == [pc |-> "idle", label |-> "", queue |-> <<>>]
\* tick flips on every signal decided; allowed and reasons are the decision.
IdleGate == [tick |-> FALSE, allowed |-> FALSE, reasons |-> {}]

\* ------------------------------------------------ API response parsing
\* A raw field of an exchange response: absent (undefined or null), a text
\* parseFloat cannot read ("not-a-number") or reads as Infinity, or a
\* number or numeric string, kept as its value.
Missing   == [kind |-> "missing", value |-> 0]
Text      == [kind |-> "text", value |-> 0]
Number(n) == [kind |-> "number", value |-> n]
\* a ?? b
Coalesce(a, b) == IF a.kind = "missing" THEN b ELSE a
NaN == Null
\* parseFloat(raw ?? NaN), as an optional finite number.
ParseFloat(raw) == IF raw.kind = "number" THEN Some(raw.value) ELSE NaN
IsFinite(x) == x # NaN

\* Lines 21-25.
ParsePrice(raw) ==
    IF raw.kind = "missing" THEN Null
    ELSE LET n == ParseFloat(raw) IN IF IsFinite(n) THEN n ELSE Null

\* Lines 31-45.
ParseFilledQty(order) ==
    LET remaining == ParseFloat(Coalesce(order.remainingSize,
                                Coalesce(order.remaining, order.sizeRemaining)))
        total     == ParseFloat(order.size)
        maker     == ParseFloat(order.makerAmount)
    IN IF IsFinite(remaining) /\ IsFinite(total)
       THEN Max(0, total[1] - remaining[1])
       ELSE IF IsFinite(maker) /\ maker[1] > 0 THEN maker[1]
       ELSE 0

\* clampFilledQty without its upper limit.
ClampAtZeroOnly(filledQty, requestedQty) == Max(0, filledQty)

\* Lines 47-50; filledQty is a finite number here.
ClampFilledQty(filledQty, requestedQty) ==
    IF filledQty <= 0 THEN 0 ELSE Min(filledQty, requestedQty)

\* A status string is the sequence of its characters; an absent status is
\* the empty string (raw ?? "").
Letters == << <<"a", "A">>, <<"c", "C">>, <<"d", "D">>, <<"e", "E">>,
              <<"f", "F">>, <<"h", "H">>, <<"i", "I">>, <<"l", "L">>,
              <<"m", "M">>, <<"n", "N">>, <<"o", "O">>, <<"p", "P">>,
              <<"t", "T">>, <<"v", "V">> >>
ToUpperChar(ch) ==
    IF \E i \in 1..Len(Letters) : Letters[i][1] = ch
    THEN Letters[CHOOSE i \in 1..Len(Letters) : Letters[i][1] = ch][2]
    ELSE ch
\* normalizeStatus without the case conversion.
KeepCase(raw) == raw
\* Lines 56-58.
NormalizeStatus(raw) == [i \in 1..Len(raw) |-> ToUpperChar(raw[i])]

MATCHED   == <<"M", "A", "T", "C", "H", "E", "D">>
FILLED    == <<"F", "I", "L", "L", "E", "D">>
CANCELLED == <<"C", "A", "N", "C", "E", "L", "L", "E", "D">>

\* The statuses the exchange answers with, in the letter cases seen.
RawStatuses ==
    { <<>>, MATCHED, <<"m", "a", "t", "c", "h", "e", "d">>,
      FILLED, <<"F", "i", "l", "l", "e", "d">>,
      CANCELLED, <<"c", "a", "n", "c", "e", "l", "l", "e", "d">>,
      <<"c", "a", "n", "c", "e", "l", "e", "d">>,
      <<"O", "P", "E", "N">>, <<"l", "i", "v", "e">> }

NoOrder == [status |-> <<>>, size |-> Missing, remainingSize |-> Missing,
            remaining |-> Missing, sizeRemaining |-> Missing,
            makerAmount |-> Missing, avgPrice |-> Missing,
            fillPrice |-> Missing]

\* The order responses getOrder is made to return.
OrderResponses ==
    [status : RawStatuses,
     size : {Missing, Text, Number(MaxQty)},
     remainingSize : {Missing, Text, Number(0 - 1), Number(0), Number(1),
                      Number(MaxQty + 1)},
     remaining : {Missing, Number(1)},
     sizeRemaining : {Missing, Number(0)},
     makerAmount : {Missing, Text, Number(0), Number(1), Number(MaxQty + 1)},
     avgPrice : {Missing, Text, Number(54)},
     fillPrice : {Missing, Number(56)}]

\* The _waitForFill call under study: requestedQty; polls left before the
\* deadline; threw: the last getOrder rejected; order: the last response
\* (of a response the loop polls on after, the status, which is all the
\* loop read of it); answered: some getOrder of the call has returned a
\* response; result: the FillResult returned.
IdlePoll == [pc |-> "off", requestedQty |-> 0, left |-> 0, threw |-> FALSE,
             answered |-> FALSE, order |-> NoOrder, result |-> Null]

\* The trade object built by execute (lines 430-445): size and initialSize
\* are both tokenQty * entryPrice.
NewTrade(label, entryPrice, tokenQty, simulated) ==
    [NoTrade EXCEPT !.status = "OPEN", !.label = label,
                    !.simulated = simulated, !.entryPrice = entryPrice,
                    !.tokenQty = tokenQty, !.size = tokenQty * entryPrice,
                    !.initialSize = Some(tokenQty * entryPrice)]

\* restorePositions giving every trade the order {id, status: "RESTORED"},
\* whatever order the snapshot carries.
RestoredTradeDefaultOrder(snap) ==
    [NoTrade EXCEPT !.status = "OPEN", !.label = snap.label,
                    !.simulated = FALSE,
                    !.entryPrice = snap.entryPrice,
                    !.tokenQty = OrElse(snap.tokenQty, snap.size \div snap.entryPrice),
                    !.size = snap.size]

\* The trade object built by restorePositions (lines 760-776): tokenQty
\* falls back to size / entryPrice; no initialSize.
RestoredTrade(snap) ==
    [NoTrade EXCEPT !.status = "OPEN", !.label = snap.label,
                    !.simulated = snap.simulated,
                    !.entryPrice = snap.entryPrice,
                    !.tokenQty = OrElse(snap.tokenQty, snap.size \div snap.entryPrice),
                    !.size = snap.size]

\* _monitorPosition(trade): arm the interval and the safety timeout.
ArmTimers(t) ==
    /\ monitor' = [monitor EXCEPT ![t] = "on"]
    /\ proc' = [proc EXCEPT ![t] = [mon |-> [IdleProc EXCEPT !.pc = "idle"],
                                    saf |-> [IdleProc EXCEPT !.pc = "armed"]]]

\* ------------------------------------------------------------------- Init
\* A record getOpenSnapshot wrote in an earlier session, in the same mode.
\* age: "fresh" (younger than MAX_HOLD_MS), "aged" (between MAX_HOLD_MS and
\* MAX_HOLD_MS + 60 s), "stale" (older).
SnapshotsOf(id, simulated) ==
    { [id |-> id, label |-> l, simulated |-> simulated,
       entryPrice |-> SignalEntryPrice, tokenQty |-> q,
       size |-> MaxQty * SignalEntryPrice, age |-> a] :
         l \in SnapshotLabels, q \in {Null, Some(MaxQty)},
         a \in {"fresh", "aged", "stale"} }

\* The saved state: snapshots of the trades 1..k in id order.
RECURSIVE SnapshotLists(_, _)
SnapshotLists(k, simulated) ==
    IF k = 0 THEN {<<>>}
    ELSE { Append(rest, snap) : rest \in SnapshotLists(k - 1, simulated),
                                snap \in SnapshotsOf(k, simulated) }

RECURSIVE RestoredRisk(_, _)
RestoredRisk(r, snaps) ==
    IF snaps = <<>> THEN r
    ELSE RestoredRisk(OpenPosition(r, Head(snaps).id, Head(snaps).size,
                                   Head(snaps).entryPrice), Tail(snaps))

\* No fetchPriceAtTimestamp call yet.  known: the asset has a feed; latestOk:
\* latestRoundData answered; latestAgg: the aggregator round of the latest
\* round; gaps: the aggregator rounds whose getRoundData fails; result: what
\* the call returned.
IdleOracle == [pc |-> "off", known |-> FALSE, latestOk |-> FALSE,
               latestAgg |-> 0, gaps |-> {}, target |-> 0, nowSec |-> 0,
               result |-> Null]

\* Strategy.constructor (calibration.js 155-199), the fields _evaluate and
\* the feed handlers use; onSignal: a handler is registered; lastSignal and
\* lastEval: the last signal emitted and how the last _evaluate ended.
\* contractMid stands for the whole book kept by onContractUpdate (mid,
\* best bid and ask, depths), which is written and left alone together;
\* contractFresh: it was written after the last setMarket.
NewStrategy ==
    [spotPrice |-> Null, contractMid |-> Null, contractFresh |-> FALSE,
     lastSpotUpdate |-> 0, lastContractUpdate |-> 0,
     marketEndDate |-> Null, marketWindowStart |-> Null,
     marketOpenStrike |-> Null, marketSetCount |-> 0,
     onSignal |-> FALSE, signalCount |-> 0,
     lastSignal |-> Null, lastEval |-> [end |-> "", offer |-> ""]]

\* The state after construction and the risk manager's restore: trade ids
\* `ids`, up to `restorable` of them in the saved state, saved bankroll
\* `capital` and saved dailyPnl `daily`; `windows`: the certainty windows
\* the trades' signals can have.
InitWith(ids, restorable, capital, daily, windows) ==
    /\ dryRun \in BOOLEAN
    /\ oracle = IdleOracle
    /\ strat = NewStrategy
    /\ expiry \in [ids -> windows]
    /\ booted = FALSE
    /\ snapshots \in UNION { SnapshotLists(k, dryRun) : k \in 0..restorable }
    /\ trade = [t \in ids |-> NoTrade]
    /\ openOrders = <<>>
    /\ LET r == RestoredRisk([bankroll |-> capital, dailyPnl |-> daily,
                              peakBankroll |-> 0,
                              openPositions |-> EmptyMap,
                              killed |-> FALSE,
                              lastTradeTime |-> 0 - CooldownTicks], snapshots)
       IN risk = [r EXCEPT !.peakBankroll = r.bankroll]
    /\ pnlStats = [n |-> 0, sum |-> 0]
    /\ tradeHistory = <<>>
    /\ tradeEvents = [t \in ids |-> <<>>]
    /\ riskCalls = [t \in ids |-> <<>>]
    /\ alerts = [t \in ids |-> {}]
    /\ fillRateStats = [attempted |-> 0, filled |-> 0, partial |-> 0,
                        cancelled |-> 0, failed |-> 0]
    /\ exe = [t \in ids |-> IdleExe]
    /\ monitor = [t \in ids |-> "off"]
    /\ proc = [t \in ids |-> [mon |-> IdleProc, saf |-> IdleProc]]
    /\ aged = [t \in ids |-> FALSE]
    /\ safetyLog = [t \in ids |-> IdleSafetyLog]
    /\ shutdown = "idle"
    /\ rotation = IdleRotation
    /\ now = 0
    /\ gate = IdleGate
    /\ poll = IdlePoll

Init == InitWith(TradeIds, NumTrades, Bankroll0, 0, {"none"})

\* ------------------------------------------------------- restorePositions
\* A restore that books every position it keeps with the risk manager.
RECURSIVE RestoreBooksReopening(_, _)
RestoreBooksReopening(b, snaps) ==
    IF snaps = <<>> THEN b
    ELSE LET snap == Head(snaps)
             nb == IF snap.age = "stale"
                   THEN [b EXCEPT
                           !.risk = ClosePosition(@, snap.id, 0),
                           !.riskCalls[snap.id] = Append(@, 0),
                           !.tradeEvents[snap.id] = Append(@, Event("expired_on_restore", 0))]
                   ELSE [b EXCEPT
                           !.trade[snap.id] = RestoredTrade(snap),
                           !.openOrders = Append(@, snap.id),
                           !.risk = OpenPosition(@, snap.id, snap.size,
                                                 snap.entryPrice)]
         IN RestoreBooksReopening(nb, Tail(snaps))

RECURSIVE RestoreBooks(_, _)
RestoreBooks(b, snaps) ==
    IF snaps = <<>> THEN b
    ELSE LET snap == Head(snaps)
             nb == IF snap.age = "stale"
                   THEN [b EXCEPT
                           !.risk = ClosePosition(@, snap.id, 0),
                           !.riskCalls[snap.id] = Append(@, 0),
                           !.tradeEvents[snap.id] = Append(@, Event("expired_on_restore", 0))]
                   ELSE [b EXCEPT
                           !.trade[snap.id] = RestoredTrade(snap),
                           !.openOrders = Append(@, snap.id)]
         IN RestoreBooks(nb, Tail(snaps))

\* Which restored trades are MAX_HOLD_MS old already: openTime is copied
\* from the snapshot (line 770).
AgedOnRestore(snaps, ids) ==
    [t \in ids |-> \E i \in 1..Len(snaps) :
                      snaps[i].id = t /\ snaps[i].age = "aged"]

\* getOpenSnapshot() (lines 732-743): one record per trade in openOrders,
\* in insertion order; label stands for signal, simulated for order.status,
\* age for openTime; old[t]: the trade is MAX_HOLD_MS old.
GetOpenSnapshot(b, old) ==
    [i \in 1..Len(b.openOrders) |->
        LET t == b.openOrders[i]
        IN [id |-> t, label |-> b.trade[t].label,
            simulated |-> b.trade[t].simulated,
            entryPrice |-> b.trade[t].entryPrice,
            tokenQty |-> Some(b.trade[t].tokenQty),
            size |-> b.trade[t].size,
            age |-> IF old[t] THEN "aged" ELSE "fresh"]]

Restored == { snapshots[i].id : i \in { j \in 1..Len(snapshots) : snapshots[j].age # "stale" } }

RestorePositions ==
    /\ ~booted
    /\ booted' = TRUE
    /\ Commit(RestoreBooks(Books, snapshots))
    /\ monitor' = [t \in DOMAIN trade |-> IF t \in Restored THEN "on" ELSE "off"]
    /\ proc' = [t \in DOMAIN trade |->
                  IF t \in Restored
                  THEN [mon |-> [IdleProc EXCEPT !.pc = "idle"],
                        saf |-> [IdleProc EXCEPT !.pc = "armed"]]
                  ELSE proc[t]]
    /\ aged' = AgedOnRestore(snapshots, DOMAIN trade)
    /\ UNCHANGED << oracle, strat, expiry, dryRun, now, gate, poll, snapshots, alerts, fillRateStats, exe, safetyLog,
                    shutdown, rotation >>


\* ------------------------------------------------------------ _waitForFill
\* The FillResults _waitForFill(orderId, requestedQty) can return (lines
\* 220-267): MATCHED with 0 < filledQty <= requestedQty, PARTIAL with
\* 0 < filledQty <= requestedQty, CANCELLED or TIMEOUT with filledQty 0.
\* In dry-run it returns MATCHED, avgPrice null, filledQty requestedQty.
FillResults(requestedQty, avgPrices) ==
    IF dryRun
    THEN { [status |-> "MATCHED", avgPrice |-> Null, filledQty |-> requestedQty] }
    ELSE { [status |-> st, avgPrice |-> a, filledQty |-> q] :
             st \in {"MATCHED", "PARTIAL"}, a \in avgPrices, q \in 1..requestedQty }
         \cup { [status |-> "CANCELLED", avgPrice |-> Null, filledQty |-> 0],
                [status |-> "TIMEOUT", avgPrice |-> Null, filledQty |-> 0] }

\* ----------------------------------------------------------------- execute
MAX_REPRICES == 2

\* The signals execute is given: BUY_YES at SignalEntryPrice; contractPrice
\* 53 (spread 4c) or 54 (spread 2c); far: more than 120 s to expiry; qty:
\* signal.size / entryPrice.
Signals ==
    [label : SignalLabels, contractPrice : {53, 54}, far : BOOLEAN, qty : 1..MaxQty]

\* _selectOrderStrategy(signal): maker inside the spread when the spread is
\* at least 3c and expiry is more than 120 s away, else take.
SelectOrderStrategy(sig) ==
    LET actualSpread == 2 * (IF SignalEntryPrice >= sig.contractPrice
                             THEN SignalEntryPrice - sig.contractPrice
                             ELSE sig.contractPrice - SignalEntryPrice)
    IN IF actualSpread >= 3 /\ sig.far
       THEN [type |-> "maker", price |-> Max(1, Min(99, sig.contractPrice + 1))]
       ELSE [type |-> "take", price |-> SignalEntryPrice]

\* Lines 430-453 with the trade sized from the quantity requested instead
\* of the quantity filled.
OpenTradeRequested(b, t, label, entryPrice, tokenQty, simulated) ==
    [b EXCEPT !.trade[t] = NewTrade(label, entryPrice, exe[t].req, simulated),
              !.openOrders = Append(@, t),
              !.risk = OpenPosition(@, t, exe[t].req * entryPrice, entryPrice),
              !.tradeEvents[t] = Append(@, Event("open", 0))]

\* Lines 430-453: build the trade, openOrders.set, risk.openPosition, and
\* the "open" event.
OpenTrade(b, t, label, entryPrice, tokenQty, simulated) ==
    [b EXCEPT !.trade[t] = NewTrade(label, entryPrice, tokenQty, simulated),
              !.openOrders = Append(@, t),
              !.risk = OpenPosition(@, t, tokenQty * entryPrice, entryPrice),
              !.tradeEvents[t] = Append(@, Event("open", 0))]

SnapshotIds == { snapshots[i].id : i \in 1..Len(snapshots) }
FreeIds == { t \in DOMAIN trade : t \notin SnapshotIds /\ exe[t].pc = "idle" }

\* execute has returned: ret is "trade" or "null"; fill is the FillResult
\* that decided it (Null when no _waitForFill result did).
Returned(ret, fill) == [DoneExe EXCEPT !.ret = ret, !.fill = fill]

\* The abort of execute counted as if it were both a zero fill and an error.
AbortStatsBoth(stats, threw) ==
    [stats EXCEPT !.cancelled = @ + 1, !.failed = @ + 1]

\* Lines 408 and 479: a zero-fill abort counts as cancelled, a thrown
\* error as failed.
AbortStats(stats, threw) ==
    IF threw THEN [stats EXCEPT !.failed = @ + 1]
    ELSE [stats EXCEPT !.cancelled = @ + 1]

\* execute(signal) up to the first await (placeOrder).
ExecuteBegin(t, sig) ==
    /\ booted
    /\ t \in FreeIds /\ \A u \in FreeIds : t <= u
    /\ LET strategy == SelectOrderStrategy(sig)
       IN exe' = [exe EXCEPT ![t] = [pc |-> "place", label |-> sig.label,
                                     stage |-> strategy.type,
                                     price |-> strategy.price,
                                     req |-> sig.qty, reprices |-> 0,
                                     fill |-> Null, ret |-> ""]]
    /\ fillRateStats' = [fillRateStats EXCEPT !.attempted = @ + 1]

\* execute(signal) called directly, as the tests call it.
ExecuteStart(t, sig) ==
    /\ ExecuteBegin(t, sig)
    /\ UNCHANGED << oracle, strat, expiry, dryRun, now, gate, poll, booted, snapshots, trade, openOrders, risk, pnlStats,
                    tradeHistory, tradeEvents, riskCalls, alerts, monitor, proc,
                    aged, safetyLog, shutdown, rotation >>

\* The first placeOrder returns (ok) or throws.  A SIMULATED order (dry-run)
\* opens the position at once.
ExecutePlaced(t, ok) ==
    /\ exe[t].pc = "place"
    /\ IF ~ok
       THEN /\ exe' = [exe EXCEPT ![t] = Returned("null", Null)]
            /\ fillRateStats' = AbortStats(fillRateStats, TRUE)
            /\ UNCHANGED << trade, openOrders, risk, pnlStats, tradeHistory,
                            tradeEvents, riskCalls, monitor, proc >>
       ELSE IF dryRun
       THEN /\ exe' = [exe EXCEPT ![t] = Returned("trade", Null)]
            /\ fillRateStats' = [fillRateStats EXCEPT !.filled = @ + 1]
            /\ Commit(OpenTrade(Books, t, exe[t].label, exe[t].price, exe[t].req, TRUE))
            /\ ArmTimers(t)
       ELSE /\ exe' = [exe EXCEPT ![t].pc = "wait"]
            /\ UNCHANGED << fillRateStats, trade, openOrders, risk, pnlStats,
                            tradeHistory, tradeEvents, riskCalls, monitor, proc >>
    /\ UNCHANGED << oracle, strat, expiry, dryRun, now, gate, poll, booted, snapshots, alerts, aged, safetyLog, shutdown, rotation >>

\* _waitForFill on the entry order returns `fill`.  A maker order that timed
\* out unfilled is cancelled and re-placed (ok: that placeOrder returns),
\* up to MAX_REPRICES times and then once more as a take order.
ExecuteFill(t, fill, ok) ==
    /\ exe[t].pc = "wait"
    /\ fill \in FillResults(exe[t].req, EntryAvgPrices)
    /\ IF exe[t].stage = "maker" /\ fill.status = "TIMEOUT" /\ fill.filledQty = 0
       THEN /\ IF ~ok
               THEN /\ exe' = [exe EXCEPT ![t] = Returned("null", Null)]
                    /\ fillRateStats' = AbortStats(fillRateStats, TRUE)
               ELSE /\ exe' = [exe EXCEPT
                                 ![t].reprices = IF @ < MAX_REPRICES THEN @ + 1 ELSE @,
                                 ![t].stage = IF exe[t].reprices < MAX_REPRICES
                                              THEN "maker" ELSE "take"]
                    /\ UNCHANGED fillRateStats
            /\ UNCHANGED << trade, openOrders, risk, pnlStats, tradeHistory,
                            tradeEvents, riskCalls, monitor, proc >>
       ELSE IF fill.status = "MATCHED" \/ (fill.status = "PARTIAL" /\ fill.filledQty > 0)
       THEN /\ ok
            /\ exe' = [exe EXCEPT ![t] = Returned("trade", Some(fill))]
            /\ fillRateStats' = IF fill.status = "MATCHED"
                                THEN [fillRateStats EXCEPT !.filled = @ + 1]
                                ELSE [fillRateStats EXCEPT !.partial = @ + 1]
            /\ Commit(OpenTrade(Books, t, exe[t].label,
                                OrElse(fill.avgPrice, exe[t].price),
                                fill.filledQty, FALSE))
            /\ ArmTimers(t)
       ELSE /\ ok
            /\ exe' = [exe EXCEPT ![t] = Returned("null", Some(fill))]
            /\ fillRateStats' = AbortStats(fillRateStats, FALSE)
            /\ UNCHANGED << trade, openOrders, risk, pnlStats, tradeHistory,
                            tradeEvents, riskCalls, monitor, proc >>
    /\ UNCHANGED << oracle, strat, expiry, dryRun, now, gate, poll, booted, snapshots, alerts, aged, safetyLog, shutdown, rotation >>


\* ----------------------------------------------------------- _exitPosition
\* The entry guard of _exitPosition without its CLOSING test.
ExitGuardIgnoringClosing(b, t) ==
    /\ b.trade[t].status # "CLOSED"
    /\ Has(b.openOrders, t)

\* The entry guard of _exitPosition without its openOrders test.
ExitGuardStatusOnly(b, t) ==
    b.trade[t].status \notin {"CLOSING", "CLOSED"}

\* Lines 582-584: the entry guard of _exitPosition.
ExitGuard(b, t) ==
    /\ b.trade[t].status \notin {"CLOSING", "CLOSED"}
    /\ Has(b.openOrders, t)

\* P&L of tokenQty tokens bought at entryPrice and valued at price.
Pnl(tr, price, qty) == (price - tr.entryPrice) * qty

\* _exitPosition(trade, reason, markPrice) up to its first await or return.
\* result "false"/"true": it returned; "await": placeOrder is in flight.
BeginExit(b, t, reason, markPrice) ==
    IF ~ExitGuard(b, t)
    THEN [books |-> b, result |-> "false"]
    ELSE LET closing == [b EXCEPT !.trade[t].status = "CLOSING"]
         IN IF b.trade[t].simulated
            THEN [books |-> FinalizeClose(closing, t, reason, markPrice,
                                          Pnl(b.trade[t], markPrice, b.trade[t].tokenQty),
                                          FALSE),
                  result |-> "true"]
            ELSE [books |-> closing, result |-> "await"]

\* The entry cost of a partial exit taken at the exit price.
RealizedNotionalAtExit(tr, filledQty, exitPx) == filledQty * exitPx

\* Lines 610-613: the dollars of entry cost a partial exit realizes.
RealizedNotional(tr, filledQty, exitPx) == filledQty * tr.entryPrice

\* applyPartialClose done on the ledger fields directly, position untouched.
PartialRiskCashOnly(r, t, realizedNotional, realizedPnl) ==
    [r EXCEPT !.bankroll = @ + realizedNotional + realizedPnl]

\* Line 621: this.risk.applyPartialClose(trade.id, {realizedNotional, realizedPnl})
PartialRisk(r, t, realizedNotional, realizedPnl) ==
    ApplyPartialClose(r, t, realizedNotional, realizedPnl)

\* Lines 608-621 and 631-646: book a partial exit fill on the trade and in
\* the risk manager, and emit "partial_close".
BookPartial(b, t, fill, markPrice) ==
    LET tr == b.trade[t]
        exitPx == OrElse(fill.avgPrice, markPrice)
        filledQty == Min(fill.filledQty, tr.tokenQty)
        realizedPnl == Pnl(tr, exitPx, filledQty)
        realizedNotional == RealizedNotional(tr, filledQty, exitPx)
    IN [b EXCEPT
          !.trade[t].realizedPnl = @ + realizedPnl,
          !.trade[t].tokenQty = Max(0, @ - filledQty),
          !.trade[t].size = Max(0, @ - realizedNotional),
          !.risk = PartialRisk(@, t, realizedNotional, realizedPnl),
          !.riskCalls[t] = Append(@, realizedPnl),
          !.tradeEvents[t] = Append(@, Event("partial_close", filledQty))]

\* The close after the last partial fill booking the trade's realized P&L
\* once more as its final segment.
ExhaustedCloseRebooked(b, t, reason, exitPx) ==
    FinalizeClose(b, t, reason \o "_PARTIAL_EXHAUSTED", exitPx,
                  b.trade[t].realizedPnl, FALSE)

\* Lines 649-656: partial fills took everything; finalize with pnl 0.
ExhaustedClose(b, t, reason, exitPx) ==
    FinalizeClose(b, t, reason \o "_PARTIAL_EXHAUSTED", exitPx, 0, FALSE)

\* Lines 606-681: _exitPosition from the return of _waitForFill to its next
\* await (cancelOrder) or return.
ResumeExit(b, t, reason, markPrice, fill) ==
    IF fill.status = "PARTIAL" /\ fill.filledQty > 0
    THEN LET pb == BookPartial(b, t, fill, markPrice)
         IN IF pb.trade[t].tokenQty <= 0 \/ pb.trade[t].size <= 0
            THEN [books |-> ExhaustedClose(pb, t, reason,
                                           OrElse(fill.avgPrice, markPrice)),
                  result |-> "true"]
            ELSE [books |-> pb, result |-> "await"]
    ELSE IF fill.status # "MATCHED"
    THEN [books |-> b, result |-> "await"]
    ELSE LET px == OrElse(fill.avgPrice, markPrice)
         IN [books |-> FinalizeClose(b, t, reason, px,
                                     Pnl(b.trade[t], px, b.trade[t].tokenQty), FALSE),
             result |-> "true"]

\* Lines 602, 659, 666: an exit that did not close puts the trade back to OPEN.
RevertStatus(tr) == [tr EXCEPT !.status = "OPEN"]

\* Line 558: the safety timeout closes at mark when its exit did not.
SafetyFallsThrough(b, t, exited) ==
    ~exited /\ Has(b.openOrders, t) /\ b.trade[t].status # "CLOSING"

\* The interval cleared whatever _exitPosition returned.
MonitorClearedAnyway(handle, exited) == "cleared"

\* Line 543: if (exited) clearInterval(monitor)
MonitorAfter(handle, exited) == IF exited THEN "cleared" ELSE handle

\* Caller c's _exitPosition for trade t is suspended at one of its awaits.
ExitInFlight(t, c) == proc[t][c].pc \in {"place", "wait", "cancel"}

\* The caller's code after `await this._exitPosition(...)` returned `exited`:
\* the monitor tick clears its interval on true (line 543); the safety
\* timeout closes the risk state at mark (lines 558-570).  blocked: the call
\* was refused at the guard on a CLOSING status.
ExitReturns(t, c, b, al, exited, mid, blocked) ==
    IF c = "mon"
    THEN /\ Commit(b)
         /\ alerts' = al
         /\ monitor' = [monitor EXCEPT ![t] = MonitorAfter(@, exited)]
         /\ proc' = [proc EXCEPT ![t].mon = [IdleProc EXCEPT !.pc = "idle"]]
         /\ safetyLog' = safetyLog
    ELSE /\ safetyLog' = [safetyLog EXCEPT
                            ![t].exited = IF exited THEN "true" ELSE "false",
                            ![t].blocked = blocked]
         /\ IF SafetyFallsThrough(b, t, exited)
            THEN /\ Commit(FinalizeClose(b, t, "FORCE_EXIT_UNCONFIRMED", mid,
                                         Pnl(b.trade[t], mid, b.trade[t].tokenQty),
                                         TRUE))
                 /\ alerts' = [al EXCEPT ![t] = @ \cup {"unconfirmed"}]
            ELSE /\ Commit(b)
                 /\ alerts' = al
         /\ monitor' = monitor
         /\ proc' = [proc EXCEPT ![t].saf = [IdleProc EXCEPT !.pc = "done", !.mid = mid]]

\* The caller's step that calls _exitPosition and runs it to its first await.
CallExit(t, c, b, reason, markPrice) ==
    LET r == BeginExit(b, t, reason, markPrice)
    IN IF r.result = "await"
       THEN /\ Commit(r.books)
            /\ alerts' = alerts
            /\ proc' = [proc EXCEPT ![t][c] = [pc |-> "place", mid |-> markPrice,
                                               reason |-> reason, req |-> 0,
                                               skipped |-> FALSE]]
            /\ monitor' = monitor
            /\ safetyLog' = safetyLog
       ELSE ExitReturns(t, c, r.books, alerts, r.result = "true", markPrice,
                        r.result = "false" /\ b.trade[t].status = "CLOSING")

\* ------------------------------------------------ _monitorPosition: ticks
\* An exit decision that keeps the first matching reason.
ExitReasonFirstMatch(tr, currentMid, isAged) ==
    LET unrealizedPnl == Pnl(tr, currentMid, tr.tokenQty)
        dist == IF currentMid >= ModelProb THEN currentMid - ModelProb
                ELSE ModelProb - currentMid
    IN IF isAged THEN "MAX_HOLD_TIME"
       ELSE IF tr.size > 0 /\ 100 * unrealizedPnl >= ProfitTargetPct * tr.size
       THEN "PROFIT_TARGET"
       ELSE IF tr.size > 0 /\ 100 * unrealizedPnl <= (0 - StopLossPct) * tr.size
       THEN "STOP_LOSS"
       ELSE IF dist < 2 THEN "EDGE_COLLAPSED" ELSE ""

\* Lines 531-539: the exit reason of a tick; each matching condition
\* overwrites the reason set by the ones before it.  "" is shouldExit false.
\* pnlPct = unrealizedPnl / size; with size 0 it is NaN and matches nothing.
ExitReason(tr, currentMid, isAged) ==
    LET unrealizedPnl == Pnl(tr, currentMid, tr.tokenQty)
        r1 == IF isAged THEN "MAX_HOLD_TIME" ELSE ""
        r2 == IF tr.size > 0 /\ 100 * unrealizedPnl >= ProfitTargetPct * tr.size
              THEN "PROFIT_TARGET" ELSE r1
        r3 == IF tr.size > 0 /\ 100 * unrealizedPnl <= (0 - StopLossPct) * tr.size
              THEN "STOP_LOSS" ELSE r2
        dist == IF currentMid >= ModelProb THEN currentMid - ModelProb
                ELSE ModelProb - currentMid
    IN IF dist < 2 THEN "EDGE_COLLAPSED" ELSE r3

\* Time passes: the trade reaches MAX_HOLD_MS of age.
Age(t) ==
    /\ trade[t].status # "NONE"
    /\ ~aged[t]
    /\ aged' = [aged EXCEPT ![t] = TRUE]
    /\ UNCHANGED << oracle, strat, expiry, dryRun, now, gate, poll, booted, snapshots, trade, openOrders, risk, pnlStats,
                    tradeHistory, tradeEvents, riskCalls, alerts, fillRateStats,
                    exe, monitor, proc, safetyLog, shutdown, rotation >>

\* The interval callback up to its first await (lines 496-503).  The
\* interval fires whether or not an earlier tick is still awaiting; one
\* tick per trade gets as far as fetchOrderbook at a time.
MonitorTick(t) ==
    /\ monitor[t] = "on"
    /\ IF ~Has(openOrders, t)
       THEN monitor' = [monitor EXCEPT ![t] = "cleared"] /\ proc' = proc
       ELSE IF trade[t].status = "CLOSING"
       THEN monitor' = monitor /\ proc' = [proc EXCEPT ![t].mon.skipped = TRUE]
       ELSE /\ proc[t].mon.pc = "idle"
            /\ monitor' = monitor
            /\ proc' = [proc EXCEPT ![t].mon.pc = "fetch"]
    /\ UNCHANGED << oracle, strat, expiry, dryRun, now, gate, poll, booted, snapshots, trade, openOrders, risk, pnlStats,
                    tradeHistory, tradeEvents, riskCalls, alerts, fillRateStats,
                    exe, aged, safetyLog, shutdown, rotation >>

\* fetchOrderbook returns to the tick: book is Null (it threw, or the book
\* is empty or 0/1) or the book's mid (lines 503-544).
MonitorBook(t, book) ==
    /\ proc[t].mon.pc = "fetch"
    /\ book \in {Null} \cup { Some(m) : m \in BookMids }
    /\ IF book = Null
       THEN /\ proc' = [proc EXCEPT ![t].mon.pc = "idle"]
            /\ UNCHANGED << trade, openOrders, risk, pnlStats, tradeHistory,
                            tradeEvents, riskCalls, alerts, monitor, safetyLog >>
       ELSE LET currentMid == book[1]
                reason == ExitReason(trade[t], currentMid, aged[t])
                seen == [Books EXCEPT !.trade[t].currentMid = Some(currentMid)]
            IN IF reason = ""
               THEN /\ Commit(seen)
                    /\ proc' = [proc EXCEPT ![t].mon.pc = "idle"]
                    /\ UNCHANGED << alerts, monitor, safetyLog >>
               ELSE CallExit(t, "mon", seen, reason, currentMid)
    /\ UNCHANGED << oracle, strat, expiry, dryRun, now, gate, poll, booted, snapshots, fillRateStats, exe, aged,
                    shutdown, rotation >>

\* ------------------------------------------ _monitorPosition: the safety
\* The setTimeout callback up to its first await (lines 549-553).
SafetyFire(t) ==
    /\ proc[t].saf.pc = "armed"
    /\ aged[t]
    /\ monitor' = [monitor EXCEPT ![t] = "cleared"]
    /\ proc' = IF ~Has(openOrders, t)
               THEN [proc EXCEPT ![t].saf.pc = "done"]
               ELSE [proc EXCEPT ![t].saf.pc = "fetch",
                                 ![t].saf.mid = OrElse(trade[t].currentMid,
                                                       trade[t].entryPrice)]
    /\ safetyLog' = [safetyLog EXCEPT ![t].fired = trade[t].status]
    /\ UNCHANGED << oracle, strat, expiry, dryRun, now, gate, poll, booted, snapshots, trade, openOrders, risk, pnlStats,
                    tradeHistory, tradeEvents, riskCalls, alerts, fillRateStats,
                    exe, aged, shutdown, rotation >>

\* fetchOrderbook returns to the safety timeout: book is Null (it threw or
\* returned nothing) or the book's mid; then _exitPosition FORCE_EXIT.
SafetyBook(t, book) ==
    /\ proc[t].saf.pc = "fetch"
    /\ book \in {Null} \cup { Some(m) : m \in BookMids }
    /\ CallExit(t, "saf", Books, "FORCE_EXIT", OrElse(book, proc[t].saf.mid))
    /\ UNCHANGED << oracle, strat, expiry, dryRun, now, gate, poll, booted, snapshots, fillRateStats, exe, aged,
                    shutdown, rotation >>

\* ------------------------------------------- _exitPosition: after awaits
\* placeOrder for the exit SELL returns (ok) or throws (lines 591-606).
ExitPlaced(t, c, ok) ==
    /\ proc[t][c].pc = "place"
    /\ IF ok
       THEN /\ proc' = [proc EXCEPT ![t][c].pc = "wait",
                                    ![t][c].req = trade[t].tokenQty]
            /\ UNCHANGED << trade, openOrders, risk, pnlStats, tradeHistory,
                            tradeEvents, riskCalls, alerts, monitor, safetyLog >>
       ELSE ExitReturns(t, c, [Books EXCEPT !.trade[t] = RevertStatus(@)],
                        [alerts EXCEPT ![t] = @ \cup {"exit_failed"}],
                        FALSE, proc[t][c].mid, FALSE)
    /\ UNCHANGED << oracle, strat, expiry, dryRun, now, gate, poll, booted, snapshots, fillRateStats, exe, aged,
                    shutdown, rotation >>

\* _waitForFill on the exit order returns `fill` (lines 606-681).
ExitFilled(t, c, fill) ==
    /\ proc[t][c].pc = "wait"
    /\ fill \in FillResults(proc[t][c].req, ExitAvgPrices)
    /\ LET r == ResumeExit(Books, t, proc[t][c].reason, proc[t][c].mid, fill)
       IN IF r.result = "await"
          THEN /\ Commit(r.books)
               /\ proc' = [proc EXCEPT ![t][c].pc = "cancel"]
               /\ UNCHANGED << alerts, monitor, safetyLog >>
          ELSE ExitReturns(t, c, r.books, alerts, TRUE, proc[t][c].mid, FALSE)
    /\ UNCHANGED << oracle, strat, expiry, dryRun, now, gate, poll, booted, snapshots, fillRateStats, exe, aged,
                    shutdown, rotation >>

\* cancelOrder for the unfilled exit order returns or throws (lines 658-660
\* and 664-667): the trade goes back to OPEN and _exitPosition returns false.
ExitCancelled(t, c) ==
    /\ proc[t][c].pc = "cancel"
    /\ ExitReturns(t, c, [Books EXCEPT !.trade[t] = RevertStatus(@)], alerts,
                   FALSE, proc[t][c].mid, FALSE)
    /\ UNCHANGED << oracle, strat, expiry, dryRun, now, gate, poll, booted, snapshots, fillRateStats, exe, aged,
                    shutdown, rotation >>

\* ------------------------------------------------------- cancelAllOrders
\* Mark price of an estimated close: currentMid, else entryPrice.
MarkPrice(tr) == OrElse(tr.currentMid, tr.entryPrice)

\* A close at mark booked as a confirmed one.
CloseAtMarkConfirmed(b, t, reason) ==
    LET tr == b.trade[t]
    IN FinalizeClose(b, t, reason, MarkPrice(tr),
                     Pnl(tr, MarkPrice(tr), tr.tokenQty), FALSE)

\* Lines 692-699 and 719-726: close one trade at mark, estimated.
CloseAtMark(b, t, reason) ==
    LET tr == b.trade[t]
    IN FinalizeClose(b, t, reason, MarkPrice(tr),
                     Pnl(tr, MarkPrice(tr), tr.tokenQty), TRUE)

RECURSIVE CloseAllAtMark(_, _, _)
CloseAllAtMark(b, ids, reason) ==
    IF ids = <<>> THEN b
    ELSE CloseAllAtMark(CloseAtMark(b, Head(ids), reason), Tail(ids), reason)

\* cancelAllOrders() up to `await this.poly.cancelAll()`.
CancelAllStart ==
    /\ booted
    /\ shutdown = "idle"
    /\ shutdown' = "await"
    /\ UNCHANGED << oracle, strat, expiry, dryRun, now, gate, poll, booted, snapshots, trade, openOrders, risk, pnlStats,
                    tradeHistory, tradeEvents, riskCalls, alerts, fillRateStats,
                    exe, monitor, proc, aged, safetyLog, rotation >>

\* cancelAll returns (ok): every trade in openOrders is closed at mark with
\* reason SHUTDOWN; or it throws: the catch only logs (lines 688-704).
CancelAllDone(ok) ==
    /\ shutdown = "await"
    /\ shutdown' = "idle"
    /\ IF ok
       THEN Commit(CloseAllAtMark(Books, openOrders, "SHUTDOWN"))
       ELSE UNCHANGED << trade, openOrders, risk, pnlStats, tradeHistory,
                         tradeEvents, riskCalls >>
    /\ UNCHANGED << oracle, strat, expiry, dryRun, now, gate, poll, booted, snapshots, alerts, fillRateStats, exe,
                    monitor, proc, aged, safetyLog, rotation >>

\* -------------------------------------------------- cancelOrdersForLabel
\* cancelOrdersForLabel closing every open trade, whatever its label.
AnyLabel(t, label) == TRUE

\* Line 708: the filter of cancelOrdersForLabel.
MatchesLabel(t, label) == trade[t].label = label

\* cancelOrdersForLabel(label) up to the first `await cancelOrder` (lines
\* 708-713): the matches are fixed here.
CancelLabelStart(label) ==
    /\ booted
    /\ rotation.pc = "idle"
    /\ LET matches == SelectSeq(openOrders, LAMBDA t : MatchesLabel(t, label))
       IN /\ matches # <<>>
          /\ rotation' = [pc |-> "await", label |-> label, queue |-> matches]
    /\ UNCHANGED << oracle, strat, expiry, dryRun, now, gate, poll, booted, snapshots, trade, openOrders, risk, pnlStats,
                    tradeHistory, tradeEvents, riskCalls, alerts, fillRateStats,
                    exe, monitor, proc, aged, safetyLog, shutdown >>

\* cancelOrder for the first remaining match returns or throws; the trade
\* is closed at mark with reason ROTATION_CANCEL; the loop goes on to the
\* next await or ends (lines 711-728).
CancelLabelStep ==
    /\ rotation.pc = "await"
    /\ Commit(CloseAtMark(Books, Head(rotation.queue), "ROTATION_CANCEL"))
    /\ rotation' = IF Tail(rotation.queue) = <<>> THEN IdleRotation
                   ELSE [rotation EXCEPT !.queue = Tail(@)]
    /\ UNCHANGED << oracle, strat, expiry, dryRun, now, gate, poll, booted, snapshots, alerts, fillRateStats, exe,
                    monitor, proc, aged, safetyLog, shutdown >>

\* ------------------------------------------------------------------ Next
\* The two timers of _monitorPosition, entries and startup.
NextTimers ==
    \/ RestorePositions
    \/ \E t \in TradeIds, sig \in Signals : ExecuteStart(t, sig)
    \/ \E t \in TradeIds, ok \in BOOLEAN : ExecutePlaced(t, ok)
    \/ \E t \in TradeIds, ok \in BOOLEAN :
         \E fill \in FillResults(exe[t].req, EntryAvgPrices) : ExecuteFill(t, fill, ok)
    \/ \E t \in TradeIds : Age(t)
    \/ \E t \in TradeIds : MonitorTick(t)
    \/ \E t \in TradeIds, book \in {Null} \cup { Some(m) : m \in BookMids } :
         MonitorBook(t, book)
    \/ \E t \in TradeIds : SafetyFire(t)
    \/ \E t \in TradeIds, book \in {Null} \cup { Some(m) : m \in BookMids } :
         SafetyBook(t, book)
    \/ \E t \in TradeIds, c \in Callers, ok \in BOOLEAN : ExitPlaced(t, c, ok)
    \/ \E t \in TradeIds, c \in Callers :
         \E fill \in FillResults(proc[t][c].req, ExitAvgPrices) : ExitFilled(t, c, fill)
    \/ \E t \in TradeIds, c \in Callers : ExitCancelled(t, c)

\* Emergency shutdown and market rotation.
NextCancels ==
    \/ CancelAllStart
    \/ \E ok \in BOOLEAN : CancelAllDone(ok)
    \/ \E label \in Labels : CancelLabelStart(label)
    \/ CancelLabelStep

Next == NextTimers \/ NextCancels

\* The whole executor.
Spec == Init /\ [][Next]_vars

\* The executor without emergency shutdown and market rotation.
SpecTimers == Init /\ [][NextTimers]_vars

\* ================================================================ properties
\* Number of "close" events emitted for trade t: one per _finalizeClose run.
CloseCount(t) == CountEvents(tradeEvents[t], "close")
PartialCount(t) == CountEvents(tradeEvents[t], "partial_close")
ClosedIds == { t \in TradeIds : CloseCount(t) > 0 }
Created(t) == trade[t].status # "NONE"

RECURSIVE SumPassed(_)
\* Sum of every P&L argument passed to the risk manager for the trades in ids.
SumPassed(ids) ==
    IF ids = {} THEN 0
    ELSE LET k == CHOOSE x \in ids : TRUE
         IN SumSeq(riskCalls[k]) + SumPassed(ids \ {k})

RECURSIVE SumTradePnl(_)
SumTradePnl(ids) ==
    IF ids = {} THEN 0
    ELSE LET k == CHOOSE x \in ids : TRUE
         IN OrElse(trade[k].pnl, 0) + SumTradePnl(ids \ {k})

\* Dollars held in positions by the saved state the session started from.
RECURSIVE SnapshotSizes(_)
SnapshotSizes(snaps) ==
    IF snaps = <<>> THEN 0 ELSE Head(snaps).size + SnapshotSizes(Tail(snaps))

OpenSizes == SumSizes(risk.openPositions, DOMAIN risk.openPositions)

\* ------------------------------------------------------------------- C1
\* C1: every trade's close is committed at most once, whatever the
\* interleaving of monitor ticks, the safety timeout, cancelAllOrders and
\* cancelOrdersForLabel: at most one "close" event per trade, the trade is
\* in tradeHistory at most once, and pnlStats holds at most one sample per
\* closed trade.
C1_SingleCommit ==
    /\ \A t \in TradeIds : CloseCount(t) <= 1 /\ Count(tradeHistory, t) <= 1
    /\ pnlStats.n <= Cardinality(ClosedIds)

\* ------------------------------------------------------------------- C2
\* C2: with the two timers alone, the safety timeout never has an exit in
\* flight together with the monitor's; when the safety's _exitPosition was
\* refused because the monitor's exit was in flight it returned false and
\* placed no order, and once that exit has closed the trade there is
\* exactly one close: one "close" event, one tradeHistory entry, one
\* pnlStats sample per closed trade, and the trade is gone from openOrders
\* and from risk.openPositions.
C2_OverlapClosesOnce ==
    /\ pnlStats.n = Cardinality(ClosedIds)
    /\ \A t \in TradeIds :
         /\ ~(ExitInFlight(t, "mon") /\ ExitInFlight(t, "saf"))
         /\ safetyLog[t].blocked =>
              /\ proc[t].saf.pc = "done"
              /\ safetyLog[t].exited = "false"
              /\ trade[t].status = "CLOSED" =>
                   /\ CloseCount(t) = 1
                   /\ Count(tradeHistory, t) = 1
                   /\ ~Has(openOrders, t)
                   /\ t \notin DOMAIN risk.openPositions

\* The safety fired during the monitor's exit, was refused, and the
\* monitor's exit then resolved MATCHED and closed the trade.
C2_Witness ==
    \E t \in TradeIds :
        /\ safetyLog[t].blocked
        /\ trade[t].status = "CLOSED"
        /\ trade[t].exitReason \in {"MAX_HOLD_TIME", "PROFIT_TARGET",
                                    "STOP_LOSS", "EDGE_COLLAPSED"}
        /\ trade[t].estimatedExit = Some(FALSE)

\* ------------------------------------------------------------------- C3
\* C3: the status of every trade object is OPEN, CLOSING or CLOSED, and a
\* trade that is CLOSED stays CLOSED.
C3_ClosedIsAbsorbing ==
    /\ [](\A t \in TradeIds :
            Created(t) => trade[t].status \in {"OPEN", "CLOSING", "CLOSED"})
    /\ [][\A t \in TradeIds :
            trade[t].status = "CLOSED" => trade'[t].status = "CLOSED"]_vars

\* ------------------------------------------------------------------- C4
\* C4: once the safety timeout handler of a trade has completed and no
\* monitor tick or monitor exit of the trade is still running, the trade is
\* CLOSED and gone from openOrders and risk.openPositions; this includes
\* the trade whose monitor exit was in flight when the safety fired and
\* then ended unconfirmed.
C4_ClosedBySafetyCompletion ==
    \A t \in TradeIds :
        (proc[t].saf.pc = "done" /\ proc[t].mon.pc = "idle") =>
            /\ ~Has(openOrders, t)
            /\ t \notin DOMAIN risk.openPositions
            /\ Created(t) => trade[t].status = "CLOSED"

\* ------------------------------------------------------------------- C5
\* C5: when the safety timeout fired while the trade was OPEN and its
\* _exitPosition returned false, the safety handler has closed the trade
\* itself: exitReason FORCE_EXIT_UNCONFIRMED, estimated, exitPrice the
\* handler's currentMid, final P&L (currentMid - entryPrice) * tokenQty, an
\* alert sent, and the trade gone from openOrders and risk.openPositions.
C5_UnconfirmedForceExit ==
    \A t \in TradeIds :
        (safetyLog[t].fired = "OPEN" /\ safetyLog[t].exited = "false") =>
            /\ trade[t].status = "CLOSED"
            /\ trade[t].exitReason = "FORCE_EXIT_UNCONFIRMED"
            /\ trade[t].estimatedExit = Some(TRUE)
            /\ trade[t].exitPrice = Some(proc[t].saf.mid)
            /\ riskCalls[t] # <<>>
            /\ riskCalls[t][Len(riskCalls[t])] =
                 Pnl(trade[t], proc[t].saf.mid, trade[t].tokenQty)
            /\ "unconfirmed" \in alerts[t]
            /\ ~Has(openOrders, t)
            /\ t \notin DOMAIN risk.openPositions

\* ------------------------------------------------------------------- C6
\* C6: bankroll plus the sizes of the open positions equals the capital the
\* session started with plus every realized P&L passed to applyPartialClose
\* and closePosition; and with no position open, bankroll minus that
\* capital equals dailyPnl.
C6_CapitalConserved ==
    /\ risk.bankroll + OpenSizes = Bankroll0 + SumPassed(TradeIds)
    /\ (DOMAIN risk.openPositions = {}) => risk.bankroll - Bankroll0 = risk.dailyPnl

\* ------------------------------------------------------------------- C7
\* C7 as written (Q2): bankroll = bankroll(0) + realized P&L so far
\* + sizes of the positions open now - sizes of the positions open at 0.
C7_Q2AsWritten ==
    risk.bankroll = (Bankroll0 - SnapshotSizes(snapshots)) + risk.dailyPnl
                      + OpenSizes - SnapshotSizes(snapshots)

\* C7 amended: bankroll = bankroll(0) + the P&L the risk manager has
\* realized so far - sizes of the positions open now + sizes of the
\* positions open at 0.
C7_Q2Amended ==
    risk.bankroll = (Bankroll0 - SnapshotSizes(snapshots)) + risk.dailyPnl
                      - OpenSizes + SnapshotSizes(snapshots)

\* A position is open and a nonzero P&L has been realized on it.
C7_Witness ==
    \E t \in DOMAIN risk.openPositions :
        /\ PartialCount(t) > 0
        /\ risk.dailyPnl # 0
        /\ risk.bankroll # Bankroll0

\* ------------------------------------------------------------------- C8
\* C8: every trade has tokenQty >= 0 and size = tokenQty * entryPrice, and
\* a partial exit of filledQty tokens lowers tokenQty by exactly filledQty
\* and size by exactly filledQty * entryPrice; nothing else changes them.
C8_SizeTracksTokens ==
    /\ [](\A t \in TradeIds :
            Created(t) => /\ trade[t].tokenQty >= 0
                          /\ trade[t].size = trade[t].tokenQty * trade[t].entryPrice)
    /\ [][\A t \in TradeIds :
            Created(t) =>
              IF PartialCount(t)' > PartialCount(t)
              THEN LET q == tradeEvents'[t][Len(tradeEvents[t]) + 1].filledQty
                   IN /\ q > 0
                      /\ trade'[t].tokenQty = trade[t].tokenQty - q
                      /\ trade'[t].size = trade[t].size - q * trade[t].entryPrice
              ELSE /\ trade'[t].tokenQty = trade[t].tokenQty
                   /\ trade'[t].size = trade[t].size]_vars

\* A partial exit left a remainder of the position open.
C8_Witness ==
    \E t \in TradeIds :
        /\ PartialCount(t) > 0
        /\ trade[t].tokenQty > 0
        /\ trade[t].status = "OPEN"
        /\ Has(openOrders, t)

\* ------------------------------------------------------------------- C9
\* C9: once startup is over, the ids in openOrders are the ids in
\* risk.openPositions, and each trade's size is its position's size.
C9_LedgersAgree ==
    booted =>
        /\ { openOrders[i] : i \in 1..Len(openOrders) } = DOMAIN risk.openPositions
        /\ \A t \in DOMAIN risk.openPositions :
             risk.openPositions[t].size = trade[t].size

\* Both ledgers hold a position that a partial exit has reduced.
C9_Witness ==
    \E t \in DOMAIN risk.openPositions :
        /\ Has(openOrders, t)
        /\ trade[t].initialSize # Null
        /\ risk.openPositions[t].size < trade[t].initialSize[1]
        /\ risk.openPositions[t].size > 0

\* ------------------------------------------------------------------ C10
\* C10: a closed trade's pnl is the sum of the partial-exit realizedPnl
\* values and the final segment's P&L, which are the P&L values passed to
\* the risk manager for it, each once; there is one "close" event and one
\* tradeHistory entry for it; pnlStats holds one sample per closed trade,
\* the trade's pnl.
C10_PnlReconciles ==
    /\ \A t \in TradeIds :
         trade[t].status = "CLOSED" =>
            /\ trade[t].pnl = Some(SumSeq(riskCalls[t]))
            /\ CloseCount(t) = 1
            /\ Count(tradeHistory, t) = 1
    /\ pnlStats.n = Cardinality(ClosedIds)
    /\ pnlStats.sum = SumTradePnl(ClosedIds)

\* ------------------------------------------------------------------- C16
\* cancelAllOrders returns in this step.
CancelAllReturns == shutdown = "await" /\ shutdown' = "idle"

\* C16: when cancelAllOrders() returns, openOrders is empty and every trade
\* that was in openOrders is CLOSED with exitReason SHUTDOWN, estimated, at
\* exitPrice = currentMid (entryPrice when currentMid is null), and has no
\* risk position left, whether the exchange's cancelAll succeeded or threw.
C16_ShutdownClosesAll ==
    [][CancelAllReturns =>
         /\ openOrders' = <<>>
         /\ \A i \in 1..Len(openOrders) :
              LET t == openOrders[i]
              IN /\ trade'[t].status = "CLOSED"
                 /\ trade'[t].exitReason = "SHUTDOWN"
                 /\ trade'[t].estimatedExit = Some(TRUE)
                 /\ trade'[t].exitPrice = Some(MarkPrice(trade[t]))
                 /\ t \notin DOMAIN risk'.openPositions]_vars

\* ------------------------------------------------------------------- C17
\* A step of the execute call that uses id t, and the one where it returns
\* null.
ExecuteSteps(t) == exe'[t] # exe[t]
ExecuteReturnsNull(t) ==
    exe[t].pc \in {"place", "wait"} /\ exe'[t].pc = "done" /\ exe'[t].ret = "null"

\* C17: an execute call that returns null (zero-fill TIMEOUT or CANCELLED,
\* or a thrown placeOrder) never touches openOrders, risk.openPositions or
\* the bankroll and arms no monitor in any of its steps; when it returns,
\* exactly one of cancelled (zero fill) and failed (error) goes up by one
\* and filled and partial stay as they were.
C17_NullLeavesNoTrace ==
    [][\A t \in DOMAIN exe :
         /\ ExecuteSteps(t) /\ exe'[t].ret # "trade" =>
              /\ openOrders' = openOrders
              /\ risk'.openPositions = risk.openPositions
              /\ risk'.bankroll = risk.bankroll
              /\ monitor'[t] = "off" /\ proc'[t] = proc[t]
              /\ trade'[t] = NoTrade
         /\ ExecuteReturnsNull(t) =>
              LET zeroFill == exe'[t].fill # Null
              IN /\ zeroFill => /\ exe'[t].fill[1].status \in {"TIMEOUT", "CANCELLED"}
                                /\ exe'[t].fill[1].filledQty = 0
                 /\ fillRateStats'.cancelled =
                      fillRateStats.cancelled + (IF zeroFill THEN 1 ELSE 0)
                 /\ fillRateStats'.failed =
                      fillRateStats.failed + (IF zeroFill THEN 0 ELSE 1)
                 /\ fillRateStats'.filled = fillRateStats.filled
                 /\ fillRateStats'.partial = fillRateStats.partial]_vars

\* execute has returned null after a zero-fill TIMEOUT of its entry order.
C17_Witness ==
    \E t \in DOMAIN exe :
        /\ exe[t].ret = "null" /\ exe[t].fill # Null
        /\ exe[t].fill[1].status = "TIMEOUT"
        /\ fillRateStats.cancelled = 1 /\ fillRateStats.failed = 0
        /\ trade[t] = NoTrade

\* ------------------------------------------------------------------- C18
\* execute creates the trade with id t in this step.
ExecuteCreates(t) ==
    exe[t].pc \in {"place", "wait"} /\ trade[t].status = "NONE"
    /\ trade'[t].status # "NONE"

\* C18: execute creates a trade only for what was confirmed filled.  On a
\* live order the creating step has a MATCHED or PARTIAL FillResult with
\* filledQty > 0; the trade opens with tokenQty = filledQty, entryPrice =
\* the confirmed avgPrice (the order's price when the exchange reported
\* none), size = initialSize = filledQty * entryPrice; risk.openPosition
\* runs once with that size; PARTIAL increments partial and not filled.  A
\* SIMULATED (dry-run) order opens for the requested quantity.  Every trade
\* in openOrders that execute created has tokenQty > 0.
C18_TradeForFilledPortion ==
    /\ [](\A i \in 1..Len(openOrders) :
            exe[openOrders[i]].ret = "trade" => trade[openOrders[i]].tokenQty > 0)
    /\ [][\A t \in DOMAIN exe : ExecuteCreates(t) =>
            LET tr == trade'[t]
                f  == exe'[t].fill
            IN /\ exe'[t].ret = "trade"
               /\ IF dryRun
                  THEN /\ f = Null /\ tr.tokenQty = exe[t].req
                       /\ tr.entryPrice = exe[t].price
                  ELSE /\ f # Null
                       /\ f[1].status \in {"MATCHED", "PARTIAL"}
                       /\ f[1].filledQty > 0 /\ f[1].filledQty <= exe[t].req
                       /\ tr.tokenQty = f[1].filledQty
                       /\ tr.entryPrice = OrElse(f[1].avgPrice, exe[t].price)
                       /\ fillRateStats'.partial = fillRateStats.partial
                            + (IF f[1].status = "PARTIAL" THEN 1 ELSE 0)
                       /\ fillRateStats'.filled = fillRateStats.filled
                            + (IF f[1].status = "MATCHED" THEN 1 ELSE 0)
               /\ tr.status = "OPEN"
               /\ tr.size = tr.tokenQty * tr.entryPrice
               /\ tr.initialSize = Some(tr.size)
               /\ openOrders' = Append(openOrders, t)
               /\ t \notin DOMAIN risk.openPositions
               /\ risk'.openPositions = Put(risk.openPositions, t,
                                            [size |-> tr.size,
                                             entryPrice |-> tr.entryPrice])
               /\ risk'.bankroll = risk.bankroll - tr.size
               /\ CountEvents(tradeEvents'[t], "open") = 1]_vars

\* A PARTIAL entry fill of one token at a confirmed average price of 54
\* has opened a one-token trade at 54.
C18_Witness ==
    \E t \in DOMAIN exe :
        /\ exe[t].ret = "trade" /\ exe[t].fill # Null
        /\ exe[t].fill[1].status = "PARTIAL" /\ exe[t].fill[1].filledQty = 1
        /\ exe[t].fill[1].avgPrice = Some(54)
        /\ trade[t].status = "OPEN" /\ trade[t].tokenQty = 1
        /\ trade[t].size = 54 /\ fillRateStats.partial = 1
        /\ Has(openOrders, t)

\* ============================================================ _waitForFill
MaxPolls == 2           \* getOrder polls that fit before the deadline

\* Lines 234-241: the FillResult for a response whose status is MATCHED or
\* FILLED.
MatchedResult(order, requestedQty) ==
    LET parsed == ParseFilledQty(order)
    IN [status |-> "MATCHED",
        avgPrice |-> ParsePrice(Coalesce(order.avgPrice, order.fillPrice)),
        filledQty |-> ClampFilledQty(IF parsed # 0 THEN parsed ELSE requestedQty,
                                     requestedQty)]

\* Lines 242-249: the FillResult for a CANCELLED response.
CancelledResult(order, requestedQty) ==
    LET filledQty == ClampFilledQty(ParseFilledQty(order), requestedQty)
    IN [status |-> IF filledQty > 0 THEN "PARTIAL" ELSE "CANCELLED",
        avgPrice |-> ParsePrice(Coalesce(order.avgPrice, order.fillPrice)),
        filledQty |-> filledQty]

TimeoutResult == [status |-> "TIMEOUT", avgPrice |-> Null, filledQty |-> 0]

\* Lines 255-266: the FillResult after the final fetch returned `order`.
FinalResult(order, requestedQty) ==
    LET filledQty == ClampFilledQty(ParseFilledQty(order), requestedQty)
    IN IF filledQty > 0
       THEN [status |-> "PARTIAL",
             avgPrice |-> ParsePrice(Coalesce(order.avgPrice, order.fillPrice)),
             filledQty |-> filledQty]
       ELSE TimeoutResult

\* What one poll of the loop does with `order`: Null is "keep polling".
PollOutcome(order, requestedQty) ==
    LET status == NormalizeStatus(order.status)
    IN IF status = MATCHED \/ status = FILLED
       THEN Some(MatchedResult(order, requestedQty))
       ELSE IF status = CANCELLED
       THEN Some(CancelledResult(order, requestedQty))
       ELSE Null

\* _waitForFill(orderId, requestedQty, timeoutMs) is called: dry-run returns
\* MATCHED at once; otherwise the loop starts (lines 220-227).
WaitForFillCall(requestedQty) ==
    /\ poll.pc = "off"
    /\ poll' = IF dryRun
               THEN [IdlePoll EXCEPT !.pc = "returned",
                                     !.requestedQty = requestedQty,
                                     !.result = Some([status |-> "MATCHED",
                                                      avgPrice |-> Null,
                                                      filledQty |-> requestedQty])]
               ELSE [IdlePoll EXCEPT !.pc = "polling",
                                     !.requestedQty = requestedQty,
                                     !.left = MaxPolls]
    /\ UNCHANGED << oracle, strat, expiry, dryRun, now, gate, booted, snapshots, trade, openOrders,
                    risk, pnlStats, tradeHistory, tradeEvents, riskCalls,
                    alerts, fillRateStats, exe, monitor, proc, aged,
                    safetyLog, shutdown, rotation >>

\* A loop whose condition never fails by itself.
PollAgainNoDeadline(p, late) ==
    [p EXCEPT !.pc = IF late THEN "final" ELSE "polling"]

\* The loop goes round once more, or the deadline has passed (late, or no
\* poll is left).
PollAgain(p, late) ==
    [p EXCEPT !.left = @ - 1,
              !.pc = IF late \/ p.left = 1 THEN "final" ELSE "polling"]

\* One poll of the loop: getOrder returns `order` (lines 229-251).
PollOrder(order, late) ==
    /\ poll.pc = "polling"
    /\ LET outcome == PollOutcome(order, poll.requestedQty)
       IN poll' = IF outcome = Null
                  THEN [PollAgain(poll, late) EXCEPT
                          !.threw = FALSE, !.answered = TRUE,
                          !.order = [NoOrder EXCEPT !.status = order.status]]
                  ELSE [poll EXCEPT !.pc = "returned", !.threw = FALSE,
                                    !.answered = TRUE,
                                    !.order = order, !.result = outcome]
    /\ UNCHANGED << oracle, strat, expiry, dryRun, now, gate, booted, snapshots, trade, openOrders,
                    risk, pnlStats, tradeHistory, tradeEvents, riskCalls,
                    alerts, fillRateStats, exe, monitor, proc, aged,
                    safetyLog, shutdown, rotation >>

\* One poll of the loop: getOrder throws, or returns nothing to read a
\* status from (line 251).
PollThrows(late) ==
    /\ poll.pc = "polling"
    /\ poll' = [PollAgain(poll, late) EXCEPT !.threw = TRUE, !.order = NoOrder]
    /\ UNCHANGED << oracle, strat, expiry, dryRun, now, gate, booted, snapshots, trade, openOrders,
                    risk, pnlStats, tradeHistory, tradeEvents, riskCalls,
                    alerts, fillRateStats, exe, monitor, proc, aged,
                    safetyLog, shutdown, rotation >>

\* The final fetch after the deadline returns `order` (lines 254-264).
FinalFetch(order) ==
    /\ poll.pc = "final"
    /\ poll' = [poll EXCEPT !.pc = "returned", !.threw = FALSE, !.order = order,
                            !.answered = TRUE,
                            !.result = Some(FinalResult(order, poll.requestedQty))]
    /\ UNCHANGED << oracle, strat, expiry, dryRun, now, gate, booted, snapshots, trade, openOrders,
                    risk, pnlStats, tradeHistory, tradeEvents, riskCalls,
                    alerts, fillRateStats, exe, monitor, proc, aged,
                    safetyLog, shutdown, rotation >>

\* The final fetch throws (lines 264-266).
FinalThrows ==
    /\ poll.pc = "final"
    /\ poll' = [poll EXCEPT !.pc = "returned", !.threw = TRUE, !.order = NoOrder,
                            !.result = Some(TimeoutResult)]
    /\ UNCHANGED << oracle, strat, expiry, dryRun, now, gate, booted, snapshots, trade, openOrders,
                    risk, pnlStats, tradeHistory, tradeEvents, riskCalls,
                    alerts, fillRateStats, exe, monitor, proc, aged,
                    safetyLog, shutdown, rotation >>

NoIds == {}
InitFill == InitWith(NoIds, 0, Bankroll0, 0, {"none"})

NextFill ==
    \/ \E requestedQty \in 1..MaxQty : WaitForFillCall(requestedQty)
    \/ poll.pc = "polling" /\ \E order \in OrderResponses, late \in BOOLEAN :
                                 PollOrder(order, late)
    \/ \E late \in BOOLEAN : PollThrows(late)
    \/ poll.pc = "final" /\ \E order \in OrderResponses : FinalFetch(order)
    \/ FinalThrows

\* One _waitForFill call against every sequence of order responses.
SpecFill == InitFill /\ [][NextFill]_vars

\* Order responses of each kind the loop tells apart: terminal, cancelled
\* with and without a fill, still open, and without a status.
LiveResponses ==
    [status : {<<>>, MATCHED, FILLED, CANCELLED, <<"O", "P", "E", "N">>},
     size : {Missing, Number(MaxQty)},
     remainingSize : {Missing, Number(0), Number(1)},
     remaining : {Missing},
     sizeRemaining : {Missing},
     makerAmount : {Missing},
     avgPrice : {Missing, Number(54)},
     fillPrice : {Missing}]

NextFillLive ==
    \/ \E requestedQty \in 1..MaxQty : WaitForFillCall(requestedQty)
    \/ poll.pc = "polling" /\ \E order \in LiveResponses, late \in BOOLEAN :
                                 PollOrder(order, late)
    \/ \E late \in BOOLEAN : PollThrows(late)
    \/ poll.pc = "final" /\ \E order \in LiveResponses : FinalFetch(order)
    \/ FinalThrows

\* One _waitForFill call where the event loop runs what is due: the poll
\* timer fires and every getOrder call returns or throws in finite time.
SpecFillLive == InitFill /\ [][NextFillLive]_vars /\ WF_vars(NextFillLive)

\* ------------------------------------------------------------------- C19
\* C19: every FillResult _waitForFill returns has 0 <= filledQty <=
\* requestedQty, whatever the order responses were; PARTIAL comes with
\* filledQty > 0, CANCELLED and TIMEOUT with filledQty = 0.
C19_FilledQtyBounded ==
    poll.pc = "returned" =>
        LET r == poll.result[1]
        IN /\ r.status \in {"MATCHED", "PARTIAL", "CANCELLED", "TIMEOUT"}
           /\ 0 <= r.filledQty /\ r.filledQty <= poll.requestedQty
           /\ r.status = "PARTIAL" => r.filledQty > 0
           /\ r.status \in {"CANCELLED", "TIMEOUT"} => r.filledQty = 0

\* A MATCHED response with size 2 and remainingSize -1 (three tokens filled
\* by the raw parser) for a request of two tokens has been returned.
C19_Witness ==
    /\ poll.pc = "returned" /\ poll.requestedQty = MaxQty
    /\ poll.order.status = MATCHED
    /\ poll.order.size = Number(MaxQty)
    /\ poll.order.remainingSize = Number(0 - 1)
    /\ poll.result[1].filledQty = MaxQty

\* ------------------------------------------------------------------- C20
\* raw spells `word` (given in capitals) in some mix of letter cases.
Spells(raw, word) ==
    Len(raw) = Len(word) /\ \A i \in 1..Len(word) : ToUpperChar(raw[i]) = word[i]

\* The filled quantity an order response shows: size minus the remaining
\* size when both are numeric, else a numeric makerAmount, else nothing.
ShownFilled(o) ==
    LET rem == IF o.remainingSize.kind # "missing" THEN o.remainingSize
               ELSE IF o.remaining.kind # "missing" THEN o.remaining
               ELSE o.sizeRemaining
    IN IF o.size.kind = "number" /\ rem.kind = "number"
       THEN o.size.value - rem.value
       ELSE IF o.makerAmount.kind = "number" THEN o.makerAmount.value
       ELSE 0

\* C20: in the polling loop a response whose status spells MATCHED or
\* FILLED in any letter case returns MATCHED; one that spells CANCELLED
\* returns PARTIAL when it shows a filled quantity > 0 (size - remainingSize
\* when both are numeric, else makerAmount) and CANCELLED otherwise; any
\* other status, and a getOrder that throws, keeps the call polling.  After
\* the deadline the final fetch returns PARTIAL when it shows a filled
\* quantity > 0 and otherwise TIMEOUT with filledQty 0 and avgPrice null.
C20_StatusMapping ==
    [][/\ poll.pc = "polling" /\ poll' # poll =>
            LET o == poll'.order
            IN IF poll'.threw THEN poll'.pc \in {"polling", "final"}
               ELSE IF Spells(o.status, MATCHED) \/ Spells(o.status, FILLED)
               THEN poll'.pc = "returned" /\ poll'.result[1].status = "MATCHED"
               ELSE IF Spells(o.status, CANCELLED)
               THEN /\ poll'.pc = "returned"
                    /\ poll'.result[1].status =
                         IF ShownFilled(o) > 0 THEN "PARTIAL" ELSE "CANCELLED"
               ELSE poll'.pc \in {"polling", "final"} /\ poll'.result = Null
       /\ poll.pc = "final" /\ poll' # poll =>
            /\ poll'.pc = "returned"
            /\ IF ~poll'.threw /\ ShownFilled(poll'.order) > 0
               THEN /\ poll'.result[1].status = "PARTIAL"
                    /\ poll'.result[1].filledQty =
                         Min(ShownFilled(poll'.order), poll.requestedQty)
               ELSE poll'.result = Some(TimeoutResult)]_vars

\* A response with status "cancelled", no size fields and makerAmount 1
\* has been returned as PARTIAL with filledQty 1 and the fill price 54.
C20_Witness ==
    /\ poll.pc = "returned" /\ ~poll.threw
    /\ poll.order.status = <<"c", "a", "n", "c", "e", "l", "l", "e", "d">>
    /\ poll.order.size = Missing /\ poll.order.makerAmount = Number(1)
    /\ poll.order.avgPrice = Number(54)
    /\ poll.result = Some([status |-> "PARTIAL", avgPrice |-> Some(54),
                           filledQty |-> 1])

\* ============================================ risk gate and signal handler
GateBankroll     == 400   \* BANKROLL of the sessions studied here, in cents
MaxOpenPositions == 1     \* MAX_OPEN_POSITIONS of the sessions studied here
MaxTime          == 3     \* ticks of `now` a session lasts
GateIds          == {1}
RaceIds          == 1..2

\* The signals canTrade is asked about: BUY_YES at SignalEntryPrice for qty
\* tokens (signal.size = qty * SignalEntryPrice), taken at once; the book
\* depth on the side bought; overCost: signal.edge exceeds slippage + fee +
\* margin (check g).
GateSignals ==
    [label : Labels, contractPrice : {54}, far : {FALSE}, qty : 1..MaxQty,
     availableLiquidity : {MaxQty * SignalEntryPrice, 2 * MaxQty * SignalEntryPrice},
     isCertainty : BOOLEAN, overCost : BOOLEAN]

\* The signals a strategy emits: its own thresholds have passed, so the
\* depth and the edge are ample.
EngineSignals ==
    { sig \in GateSignals : /\ sig.overCost /\ ~sig.isCertainty
                            /\ sig.availableLiquidity = 2 * MaxQty * SignalEntryPrice }

\* canTrade with the cooldown stamped on every call, allowed or not.
StampAlways(r, t, allowed) == [r EXCEPT !.lastTradeTime = t]

\* canTrade's reservation: lastTradeTime = now iff all checks passed.
Stamp(r, t, allowed) ==
    IF allowed THEN [r EXCEPT !.lastTradeTime = t] ELSE r

\* canTrade's kill flag cleared once the drawdown is back under the limit.
LatchUntilRecovered(r, drawdown) == [r EXCEPT !.killed = drawdown]

\* canTrade's kill switch: set by the drawdown check, never cleared.
Latch(r, drawdown) == [r EXCEPT !.killed = @ \/ drawdown]

\* RiskManager.canTrade(signal) at time t: checks (a)-(g) in order,
\* accumulating reasons; returns at once when already killed.
CanTrade(r, sig, t) ==
    LET drawdown == (r.peakBankroll - r.bankroll) * 100
                        > MaxDrawdownPct * r.peakBankroll
        L == IF sig.isCertainty THEN 1 ELSE 2
        reasons ==
               { x \in {"cooldown"} : t - r.lastTradeTime < CooldownTicks }
          \cup { x \in {"daily loss limit"} : r.dailyPnl <= 0 - DailyLossLimit }
          \cup { x \in {"drawdown"} : drawdown }
          \cup { x \in {"max open positions"} :
                   Cardinality(DOMAIN r.openPositions) >= MaxOpenPositions }
          \cup { x \in {"liquidity"} :
                   sig.availableLiquidity < L * sig.qty * SignalEntryPrice }
          \cup { x \in {"edge"} : ~sig.overCost }
        allowed == reasons = {}
    IN IF r.killed
       THEN [risk |-> Stamp(Latch(r, FALSE), t, FALSE), allowed |-> FALSE,
             reasons |-> {"kill switch"}]
       ELSE [risk |-> Stamp(Latch(r, drawdown), t, allowed),
             allowed |-> allowed, reasons |-> reasons]

\* The engine's signal handler: the router rejects a signal whose market
\* already has an open trade in openOrders; otherwise canTrade decides and
\* an allowed signal goes to execute, which runs to its first await.
OnSignal(sig) ==
    /\ booted
    /\ LET stacked == \E i \in 1..Len(openOrders) :
                          trade[openOrders[i]].label = sig.label
           d == IF stacked
                THEN [risk |-> risk, allowed |-> FALSE,
                      reasons |-> {"already open for market"}]
                ELSE CanTrade(risk, sig, now)
       IN /\ risk' = d.risk
          /\ gate' = [tick |-> ~gate.tick, allowed |-> d.allowed,
                      reasons |-> d.reasons]
          /\ IF d.allowed
             THEN \E t \in FreeIds : ExecuteBegin(t, sig)
             ELSE UNCHANGED << exe, fillRateStats >>
    /\ UNCHANGED << oracle, strat, expiry, dryRun, now, poll, booted, snapshots, trade, openOrders,
                    pnlStats, tradeHistory, tradeEvents, riskCalls, alerts,
                    monitor, proc, aged, safetyLog, shutdown, rotation >>

\* canTrade(signal) called directly, as the tests call it.
CanTradeCall(sig) ==
    /\ booted
    /\ LET d == CanTrade(risk, sig, now)
       IN /\ risk' = d.risk
          /\ gate' = [tick |-> ~gate.tick, allowed |-> d.allowed,
                      reasons |-> d.reasons]
    /\ UNCHANGED << oracle, strat, expiry, dryRun, now, poll, booted, snapshots, trade, openOrders,
                    pnlStats, tradeHistory, tradeEvents, riskCalls, alerts,
                    fillRateStats, exe, monitor, proc, aged, safetyLog,
                    shutdown, rotation >>

\* Date.now() advances.
Tick ==
    /\ now < MaxTime
    /\ now' = now + 1
    /\ UNCHANGED << oracle, strat, expiry, dryRun, gate, poll, booted, snapshots, trade, openOrders,
                    risk, pnlStats, tradeHistory, tradeEvents, riskCalls,
                    alerts, fillRateStats, exe, monitor, proc, aged,
                    safetyLog, shutdown, rotation >>

\* UTC midnight: dailyPnl starts again at 0.
DailyReset ==
    /\ risk.dailyPnl # 0
    /\ risk' = [risk EXCEPT !.dailyPnl = 0]
    /\ UNCHANGED << oracle, strat, expiry, dryRun, now, gate, poll, booted, snapshots, trade,
                    openOrders, pnlStats, tradeHistory, tradeEvents, riskCalls,
                    alerts, fillRateStats, exe, monitor, proc, aged,
                    safetyLog, shutdown, rotation >>

\* A session restarted with nothing open, on a day without losses or on
\* one that had reached the daily loss limit.
InitGate ==
    \E daily \in {0, 0 - DailyLossLimit} : InitWith(GateIds, 0, GateBankroll, daily, {"none"})

\* Startup, signals through the router and the risk gate into execute, and
\* the entry orders' fills, for the orders with ids `ids`.
NextEntries(ids) ==
    \/ RestorePositions
    \/ \E sig \in EngineSignals : OnSignal(sig)
    \/ \E t \in ids, ok \in BOOLEAN : ExecutePlaced(t, ok)
    \/ \E t \in ids, ok \in BOOLEAN :
         \E fill \in FillResults(exe[t].req, EntryAvgPrices) : ExecuteFill(t, fill, ok)
    \/ Tick

NextGate ==
    \/ NextEntries(GateIds)
    \/ \E sig \in GateSignals : CanTradeCall(sig)
    \/ CancelAllStart
    \/ \E ok \in BOOLEAN : CancelAllDone(ok)
    \/ DailyReset

\* The risk gate: canTrade asked about every kind of signal while one
\* position is opened by the engine and closed by cancelAllOrders.
SpecGate == InitGate /\ [][NextGate]_vars

InitRace == InitWith(RaceIds, 0, GateBankroll, 0, {"none"})

\* The engine with two entry orders in flight.
SpecRace == InitRace /\ [][NextEntries(RaceIds)]_vars

\* ------------------------------------------------------------------- C11
\* canTrade returned in this step (the router's own rejection is not a
\* canTrade call).
CanTradeReturns ==
    gate' # gate /\ gate'.reasons # {"already open for market"}

\* C11: once risk.killed is set it stays set, every later canTrade call
\* returns allowed = false and no signal reaches execute, whatever the
\* bankroll, the daily P&L, the time since the last trade and the signal.
C11_KillSwitchSticky ==
    [][risk.killed =>
         /\ risk'.killed
         /\ CanTradeReturns => ~gate'.allowed
         /\ \A t \in DOMAIN exe : exe[t].pc = "idle" => exe'[t].pc = "idle"]_vars

\* canTrade has answered "kill switch" after the drawdown that set the
\* flag was undone: the position is closed, the bankroll is back at its
\* peak, the cooldown has expired and the daily P&L is 0.
C11_Witness ==
    /\ risk.killed /\ gate.reasons = {"kill switch"} /\ ~gate.allowed
    /\ risk.bankroll = risk.peakBankroll
    /\ risk.openPositions = EmptyMap
    /\ risk.dailyPnl = 0
    /\ now - risk.lastTradeTime >= CooldownTicks

\* ------------------------------------------------------------------- C12
\* C12: a canTrade call that returns allowed = true sets lastTradeTime to
\* now and comes at least cooldownMs after the previous allowed call; a
\* call that returns allowed = false leaves lastTradeTime unchanged; and
\* nothing else changes lastTradeTime.  So of two calls less than
\* cooldownMs apart at most one is allowed.
C12_CheckAndStamp ==
    [][/\ CanTradeReturns /\ gate'.allowed =>
            /\ risk'.lastTradeTime = now
            /\ now - risk.lastTradeTime >= CooldownTicks
       /\ CanTradeReturns /\ ~gate'.allowed =>
            risk'.lastTradeTime = risk.lastTradeTime
       /\ risk'.lastTradeTime # risk.lastTradeTime =>
            CanTradeReturns /\ gate'.allowed]_vars

\* A second canTrade call in the same tick as an allowed one has been
\* rejected for the cooldown alone, and the stamp is still that tick.
C12_Witness ==
    /\ ~gate.allowed /\ gate.reasons = {"cooldown"}
    /\ risk.lastTradeTime = now /\ now > 0

\* ------------------------------------------------------------------- C13
\* C13: no two trades in openOrders have the same signal.label, and no
\* signal is passed to execute while a trade of its label is open; also
\* when the second signal arrives while the first execute still awaits its
\* fill.
C13_NoStacking ==
    /\ [](\A i, j \in 1..Len(openOrders) :
            i # j => trade[openOrders[i]].label # trade[openOrders[j]].label)
    /\ [][\A t \in DOMAIN exe : exe[t].pc = "idle" /\ exe'[t].pc = "place" =>
            \A i \in 1..Len(openOrders) :
                trade[openOrders[i]].label # exe'[t].label]_vars

\* ------------------------------------------------------------------- C14
\* C14: the number of open positions, in risk.openPositions and in
\* openOrders, never exceeds maxOpenPositions.
C14_PositionLimit ==
    /\ Cardinality(DOMAIN risk.openPositions) <= MaxOpenPositions
    /\ Len(openOrders) <= MaxOpenPositions

\* ==================================================== rotation, two markets
RotationIds == 1..2

\* A session restored with one live ETH/5m trade (id 1) or none.
InitRotation == InitWith(RotationIds, 1, Bankroll0, 0, {"none"})

NextRotation ==
    \/ RestorePositions
    \/ \E t \in RotationIds, sig \in Signals : ExecuteStart(t, sig)
    \/ \E t \in RotationIds, ok \in BOOLEAN : ExecutePlaced(t, ok)
    \/ \E t \in RotationIds, ok \in BOOLEAN :
         \E fill \in FillResults(exe[t].req, EntryAvgPrices) : ExecuteFill(t, fill, ok)
    \/ \E t \in RotationIds : MonitorTick(t)
    \/ \E t \in RotationIds, book \in {Null} \cup { Some(m) : m \in BookMids } :
         MonitorBook(t, book)
    \/ \E label \in Labels : CancelLabelStart(label)
    \/ CancelLabelStep

\* Two markets, a restored ETH/5m trade and an executed BTC/5m trade,
\* marked by the monitor (whose exit orders stay unanswered) and cancelled
\* by market rotations.
SpecRotation == InitRotation /\ [][NextRotation]_vars

\* ------------------------------------------------------------------- C15
\* cancelOrdersForLabel closes one of its matches in this step.
RotationCloses == rotation.pc = "await" /\ rotation' # rotation

\* C15: a step of cancelOrdersForLabel(L) closes one trade whose label is
\* L: it ends CLOSED, ROTATION_CANCEL, estimated, at exitPrice = currentMid
\* (entryPrice when currentMid is null), out of openOrders and of
\* risk.openPositions, whether its cancelOrder returned or threw; every
\* other trade keeps all its fields, its openOrders entry and its risk
\* position.  No trade gets exitReason ROTATION_CANCEL in any other way,
\* and the call's first step changes no trade at all.
C15_RotationIsolated ==
    [][/\ RotationCloses =>
            LET t == Head(rotation.queue)
            IN /\ trade[t].label = rotation.label
               /\ trade'[t].status = "CLOSED"
               /\ trade'[t].exitReason = "ROTATION_CANCEL"
               /\ trade'[t].estimatedExit = Some(TRUE)
               /\ trade'[t].exitPrice = Some(MarkPrice(trade[t]))
               /\ ~Has(openOrders', t)
               /\ t \notin DOMAIN risk'.openPositions
               /\ \A u \in DOMAIN trade \ {t} :
                    /\ trade'[u] = trade[u]
                    /\ Has(openOrders', u) = Has(openOrders, u)
                    /\ (u \in DOMAIN risk.openPositions =>
                          /\ u \in DOMAIN risk'.openPositions
                          /\ risk'.openPositions[u] = risk.openPositions[u])
       /\ \A t \in DOMAIN trade :
            trade'[t].exitReason = "ROTATION_CANCEL"
              /\ trade[t].exitReason # "ROTATION_CANCEL"
            => RotationCloses /\ trade[t].label = rotation.label
       /\ rotation.pc = "idle" /\ rotation' # rotation =>
            /\ UNCHANGED << trade, openOrders, risk >>
            /\ \A i \in 1..Len(rotation'.queue) :
                 trade[rotation'.queue[i]].label = rotation'.label]_vars

\* cancelOrdersForLabel("BTC/5m") has closed the BTC/5m trade at its mark
\* of 64 while the restored ETH/5m trade is still open, in openOrders and
\* in risk.openPositions.
C15_Witness ==
    \E t, u \in DOMAIN trade :
        /\ trade[t].label = "BTC/5m" /\ trade[t].status = "CLOSED"
        /\ trade[t].exitReason = "ROTATION_CANCEL"
        /\ trade[t].exitPrice = Some(64)
        /\ trade[u].label = "ETH/5m" /\ trade[u].status \in {"OPEN", "CLOSING"}
        /\ Has(openOrders, u) /\ u \in DOMAIN risk.openPositions
        /\ ~Has(openOrders, t)

\* ------------------------------------------------------------------ C21
\* The step in which caller c (a monitor tick or the safety timeout) calls
\* _exitPosition for trade t: its fetchOrderbook has returned and, for the
\* monitor, the mid it stored on the trade gives an exit reason.
ExitCallStep(t, c) ==
    /\ proc[t][c].pc = "fetch"
    /\ proc'[t][c].pc # "fetch"
    /\ c = "mon" => \E m \in BookMids :
                       /\ trade'[t].currentMid = Some(m)
                       /\ ExitReason(trade[t], m, aged[t]) # ""

\* C21: _exitPosition called on a trade whose status is CLOSING or CLOSED,
\* or that is not in openOrders, returns false and does nothing: no exit
\* order is placed, the trade (but for the mid the monitor tick stored
\* before the call), openOrders, tradeHistory, pnlStats and the risk
\* manager are unchanged, and the caller sees false (the monitor keeps its
\* interval, the safety timeout records false and closes nothing).
C21_ExitRefusedIsNoOp ==
    [][\A t \in TradeIds, c \in Callers :
         ( /\ ExitCallStep(t, c)
           /\ \/ trade[t].status \in {"CLOSING", "CLOSED"}
              \/ ~Has(openOrders, t) )
         => /\ proc'[t][c].pc # "place"
            /\ trade' = [trade EXCEPT ![t].currentMid = trade'[t].currentMid]
            /\ c = "saf" => trade' = trade /\ safetyLog'[t].exited = "false"
            /\ c = "mon" => monitor' = monitor
            /\ UNCHANGED << openOrders, risk, pnlStats, tradeHistory,
                            tradeEvents, riskCalls, alerts >>]_vars

\* The safety timeout called _exitPosition while the monitor's exit had
\* the trade CLOSING: the call was refused and the handler is done, with
\* the monitor's exit still in flight and nothing closed.
C21_Witness ==
    \E t \in TradeIds :
        /\ safetyLog[t].blocked
        /\ proc[t].saf.pc = "done"
        /\ ExitInFlight(t, "mon")
        /\ trade[t].status = "CLOSING"
        /\ Has(openOrders, t)
        /\ CloseCount(t) = 0

\* ------------------------------------------------------------------ C22
\* The books of a newly constructed Executor: no trades, nothing closed.
FreshBooks ==
    [Books EXCEPT !.trade = [t \in DOMAIN trade |-> NoTrade],
                  !.openOrders = <<>>,
                  !.pnlStats = [n |-> 0, sum |-> 0],
                  !.tradeHistory = <<>>]

\* C22: in every state of the executor, whose open trades are none older
\* than MAX_HOLD_MS + 60 s, getOpenSnapshot() handed to restorePositions()
\* of a fresh Executor and snapshotted again yields the same records, and
\* every restored trade is OPEN and holds the snapshot's fields; and
\* restorePositions gives a trade restored from a snapshot without
\* tokenQty the tokenQty size / entryPrice.
C22_SnapshotRoundTrip ==
    /\ [](LET snaps == GetOpenSnapshot(Books, aged)
              again == RestoreBooks(FreshBooks, snaps)
          IN /\ GetOpenSnapshot(again, AgedOnRestore(snaps, DOMAIN trade)) = snaps
             /\ again.openOrders = openOrders
             /\ \A t \in DOMAIN trade :
                  Has(openOrders, t) =>
                     /\ again.trade[t].status = "OPEN"
                     /\ again.trade[t].tokenQty = trade[t].tokenQty
                     /\ again.trade[t].size = trade[t].size
                     /\ again.trade[t].entryPrice = trade[t].entryPrice
                     /\ again.trade[t].simulated = trade[t].simulated
                     /\ again.trade[t].label = trade[t].label)
    /\ [][~booted /\ booted' =>
            \A i \in 1..Len(snapshots) :
               snapshots[i].age # "stale" =>
                  LET snap == snapshots[i]
                  IN /\ trade'[snap.id].status = "OPEN"
                     /\ Has(openOrders', snap.id)
                     /\ snap.tokenQty = Null =>
                           /\ trade'[snap.id].tokenQty * snap.entryPrice = snap.size
                           /\ trade'[snap.id].tokenQty > 0]_vars

\* A trade restored from a snapshot without tokenQty was partly sold since
\* and is back to OPEN: the snapshot taken now carries the reduced tokenQty
\* and size, not the ones the session started from.
C22_Witness ==
    \E t \in TradeIds :
        /\ booted
        /\ \E i \in 1..Len(snapshots) :
              snapshots[i].id = t /\ snapshots[i].tokenQty = Null
        /\ Has(openOrders, t)
        /\ trade[t].status = "OPEN"
        /\ PartialCount(t) > 0
        /\ trade[t].tokenQty < MaxQty

\* ------------------------------------------------------------------ C25
\* The step is caller c's _exitPosition for trade t resuming from
\* _waitForFill with a confirmed fill: MATCHED, or PARTIAL with
\* filledQty > 0 that leaves no tokens, and committing the close it makes.
ConfirmedFillStep(t, c) ==
    /\ proc[t][c].pc = "wait"
    /\ proc'[t][c].pc \notin {"wait", "cancel"}
    /\ \E fill \in FillResults(proc[t][c].req, ExitAvgPrices) :
          /\ \/ fill.status = "MATCHED"
             \/ /\ fill.status = "PARTIAL"
                /\ fill.filledQty > 0
                /\ fill.filledQty >= trade[t].tokenQty
          /\ trade'[t] = ResumeExit(Books, t, proc[t][c].reason,
                                    proc[t][c].mid, fill).books.trade[t]

\* C25: every step that commits a close of a live trade with
\* estimatedExit = false is _exitPosition resuming from _waitForFill on its
\* exit order with MATCHED, or with a PARTIAL fill that exhausts the
\* remaining tokenQty; every other close of a live trade (SHUTDOWN,
\* ROTATION_CANCEL, FORCE_EXIT_UNCONFIRMED) has estimatedExit = true.
C25_ConfirmedOrEstimated ==
    [][\A t \in TradeIds :
         (CloseCount(t)' > CloseCount(t) /\ ~trade[t].simulated)
         => /\ trade'[t].estimatedExit \in {Some(TRUE), Some(FALSE)}
            /\ trade'[t].estimatedExit = Some(FALSE)
                 <=> \E c \in Callers : ConfirmedFillStep(t, c)
            /\ trade'[t].estimatedExit = Some(TRUE)
                 <=> trade'[t].exitReason \in {"SHUTDOWN", "ROTATION_CANCEL",
                                               "FORCE_EXIT_UNCONFIRMED"}]_vars

\* A live trade closed on a PARTIAL exit fill that took every remaining
\* token, booked as confirmed.
C25_Witness ==
    \E t \in TradeIds :
        /\ ~trade[t].simulated
        /\ trade[t].status = "CLOSED"
        /\ trade[t].estimatedExit = Some(FALSE)
        /\ trade[t].tokenQty = 0
        /\ PartialCount(t) > 0
        /\ CloseCount(t) = 1

\* ------------------------------------------------------------------ C26
\* Caller c's _exitPosition for trade t returns false in this step without
\* a fill: its placeOrder threw, or the cancelOrder after an unconfirmed
\* fill returned or threw.
FailedExitStep(t, c) ==
    \/ proc[t][c].pc = "place" /\ proc'[t][c].pc \notin {"place", "wait"}
    \/ proc[t][c].pc = "cancel" /\ proc'[t][c].pc # "cancel"

\* The books after _exitPosition returned false to caller c with the books
\* b: the monitor tick does nothing more; the safety timeout closes at
\* mark (lines 558-570).
AfterFalse(b, t, c) ==
    IF c = "saf" /\ SafetyFallsThrough(b, t, FALSE)
    THEN FinalizeClose(b, t, "FORCE_EXIT_UNCONFIRMED", proc[t][c].mid,
                       Pnl(b.trade[t], proc[t][c].mid, b.trade[t].tokenQty), TRUE)
    ELSE b

\* C26: when placing the exit SELL order throws, or the exit fill is
\* neither MATCHED nor PARTIAL with filledQty > 0, _exitPosition returns
\* false having changed nothing but the status, which goes from CLOSING
\* back to OPEN: tokenQty, size and realizedPnl are unchanged, the trade is
\* still in openOrders and no risk-manager method was called by it (the
\* fill itself changes nothing; the return hands the caller the trade
\* OPEN, in openOrders, the books otherwise as they were).
C26_FailedExitReverts ==
    [][\A t \in TradeIds, c \in Callers :
         /\ ( /\ proc[t][c].pc = "wait"
              /\ proc'[t][c].pc = "cancel"
              /\ PartialCount(t)' = PartialCount(t) )
            => Books' = Books
         /\ FailedExitStep(t, c)
            => /\ trade[t].status = "CLOSING"
               /\ Has(openOrders, t)
               /\ Books' = AfterFalse([Books EXCEPT !.trade[t].status = "OPEN"], t, c)
               /\ c = "mon" => /\ trade'[t].status = "OPEN"
                               /\ Has(openOrders', t)
                               /\ monitor'[t] = monitor[t]
               /\ c = "saf" => safetyLog'[t].exited = "false"]_vars

\* ------------------------------------------------------------------ C27
\* C27: when the exit fill of trade t comes back PARTIAL with
\* filledQty > 0, with n = min(filledQty, tokenQty) and exitPx the fill's
\* avgPrice or else the mark, risk.applyPartialClose is called once with
\* realizedNotional = n * entryPrice and realizedPnl = (exitPx -
\* entryPrice) * n and the trade's tokenQty, size and realizedPnl are
\* adjusted by them.  If tokens remain, nothing else is booked, the
\* remainder is cancelled and the next step of the exit puts the trade
\* back to OPEN and returns false.  If none remain the trade is finalized
\* in the same step: reason "<reason>_PARTIAL_EXHAUSTED", final segment
\* P&L 0 to the risk manager, estimatedExit false, and the exit returns
\* true.
C27_PartialExit ==
    [][\A t \in TradeIds, c \in Callers :
         /\ ( /\ proc[t][c].pc = "wait"
              /\ PartialCount(t)' > PartialCount(t) )
            => \E fill \in FillResults(proc[t][c].req, ExitAvgPrices) :
                 LET n == Min(fill.filledQty, trade[t].tokenQty)
                     exitPx == OrElse(fill.avgPrice, proc[t][c].mid)
                     notional == n * trade[t].entryPrice
                     gain == (exitPx - trade[t].entryPrice) * n
                     partly == ApplyPartialClose(risk, t, notional, gain)
                     left == trade[t].tokenQty - n
                 IN /\ fill.status = "PARTIAL" /\ fill.filledQty > 0
                    /\ PartialCount(t)' = PartialCount(t) + 1
                    /\ trade'[t].tokenQty = left
                    /\ trade'[t].size = Max(0, trade[t].size - notional)
                    /\ trade'[t].realizedPnl = trade[t].realizedPnl + gain
                    /\ IF left > 0 /\ trade'[t].size > 0
                       THEN /\ riskCalls'[t] = Append(riskCalls[t], gain)
                            /\ risk' = partly
                            /\ proc'[t][c].pc = "cancel"
                            /\ trade'[t].status = trade[t].status
                            /\ CloseCount(t)' = CloseCount(t)
                            /\ UNCHANGED << openOrders, pnlStats, tradeHistory >>
                       ELSE /\ riskCalls'[t] = riskCalls[t] \o << gain, 0 >>
                            /\ risk' = ClosePosition(partly, t, 0)
                            /\ trade'[t].status = "CLOSED"
                            /\ trade'[t].exitReason =
                                  proc[t][c].reason \o "_PARTIAL_EXHAUSTED"
                            /\ trade'[t].estimatedExit = Some(FALSE)
                            /\ trade'[t].pnl = Some(trade'[t].realizedPnl)
                            /\ CloseCount(t)' = CloseCount(t) + 1
                            /\ ~Has(openOrders', t)
                            /\ c = "mon" => monitor'[t] = "cleared"
                            /\ c = "saf" => safetyLog'[t].exited = "true"
         /\ ( /\ proc[t][c].pc = "cancel"
              /\ proc'[t][c].pc # "cancel" )
            => /\ trade'[t].tokenQty = trade[t].tokenQty
               /\ PartialCount(t)' = PartialCount(t)
               /\ c = "mon" => trade'[t].status = "OPEN" /\ monitor'[t] = monitor[t]
               /\ c = "saf" => safetyLog'[t].exited = "false"]_vars

\* A live trade sold in two partial fills: the first left tokens and the
\* trade went back to OPEN, the second took the rest and closed it.
C27_Witness ==
    \E t \in TradeIds :
        /\ PartialCount(t) = 2
        /\ trade[t].status = "CLOSED"
        /\ trade[t].tokenQty = 0
        /\ trade[t].estimatedExit = Some(FALSE)
        /\ Len(riskCalls[t]) = 3
        /\ riskCalls[t][3] = 0
        /\ CloseCount(t) = 1

\* ------------------------------------------------------------------ C30
\* C30: the interval of trade t goes from running to cleared only in a
\* step in which an _exitPosition call made by one of its ticks returns
\* true (the close is committed in that step), in a tick that finds the
\* trade gone from openOrders, or when the safety timeout fires.  When an
\* exit called from a tick returns false (failed, or partial with tokens
\* left) the status is OPEN, the interval is as it was and the tick is
\* over, so that the next tick evaluates the exit conditions afresh.  A
\* tick that finds the trade CLOSING changes nothing (but the note that it
\* ran).
C30_MonitorRetries ==
    [][\A t \in TradeIds :
         /\ (monitor[t] = "on" /\ monitor'[t] # "on")
            => /\ monitor'[t] = "cleared"
               /\ \/ /\ proc[t].mon.pc \in {"fetch", "wait"}
                     /\ proc'[t].mon.pc = "idle"
                     /\ CloseCount(t)' = CloseCount(t) + 1
                     /\ trade'[t].status = "CLOSED"
                  \/ /\ ~Has(openOrders, t)
                     /\ proc' = proc
                     /\ trade' = trade
                  \/ /\ proc[t].saf.pc = "armed"
                     /\ proc'[t].saf.pc \in {"fetch", "done"}
         /\ FailedExitStep(t, "mon")
            => /\ trade'[t].status = "OPEN"
               /\ monitor'[t] = monitor[t]
               /\ proc'[t].mon.pc = "idle"
               /\ CloseCount(t)' = CloseCount(t)
         /\ (~proc[t].mon.skipped /\ proc'[t].mon.skipped)
            => /\ trade[t].status = "CLOSING"
               /\ proc' = [proc EXCEPT ![t].mon.skipped = TRUE]
               /\ UNCHANGED << trade, openOrders, risk, pnlStats, tradeHistory,
                               tradeEvents, riskCalls, alerts, monitor,
                               safetyLog >>]_vars

\* After a partial exit from a tick left tokens and the trade went back to
\* OPEN, a later tick has called _exitPosition again; its order is being
\* placed, and a tick that ran meanwhile found the trade CLOSING.
C30_Witness ==
    \E t \in TradeIds :
        /\ monitor[t] = "on"
        /\ PartialCount(t) = 1
        /\ trade[t].tokenQty > 0
        /\ trade[t].status = "CLOSING"
        /\ proc[t].mon.pc = "place"
        /\ proc[t].mon.skipped
        /\ Has(openOrders, t)

\* ========================================================= certainty trades
\* Time passes: Date.now() reaches signal.expiresAt of trade t's signal.
Expire(t) ==
    /\ expiry[t] = "ahead"
    /\ expiry' = [expiry EXCEPT ![t] = "past"]
    /\ UNCHANGED << oracle, strat, dryRun, now, gate, poll, booted, snapshots, trade,
                    openOrders, risk, pnlStats, tradeHistory, tradeEvents,
                    riskCalls, alerts, fillRateStats, exe, monitor, proc,
                    aged, safetyLog, shutdown, rotation >>

\* The signals of the trades are latency-arb or certainty-arb signals.
InitCertainty ==
    InitWith(TradeIds, NumTrades, Bankroll0, 0, {"none", "ahead", "past"})

NextCertainty ==
    \/ NextTimers
    \/ \E t \in TradeIds : Expire(t)

\* The two timers of _monitorPosition on trades with and without a
\* certainty window.
SpecCertainty == InitCertainty /\ [][NextCertainty]_vars

\* ------------------------------------------------------------------ C28
\* The reason trade t's tick passes to _exitPosition in this step, "" when
\* the step is not such a call or the call is refused.
ReasonPassed(t) ==
    IF ExitCallStep(t, "mon") /\ ExitGuard(Books, t)
    THEN IF trade[t].simulated THEN trade'[t].exitReason
         ELSE proc'[t].mon.reason
    ELSE ""

C29_ExitAtCertaintyExpiry ==
    [][\A t \in TradeIds :
         ( /\ expiry[t] = "past"
           /\ proc[t].mon.pc = "fetch"
           /\ proc'[t].mon.pc # "fetch"
           /\ trade[t].currentMid = Null
           /\ trade'[t].currentMid # Null
           /\ ExitGuard(Books, t) )
         => trade'[t].status \in {"CLOSING", "CLOSED"}]_vars

\* ================================================================= Strategy
\* The Strategy of calibration.js 154-396.  Here one tick of `now` is 30 s
\* and dates are in ticks.  impliedProbability, calculateEdge, the EMAs and
\* calculatePositionSize (utils/math.js) are not modelled: what they make
\* of the market at an evaluation is the input `offer`.
MaxMarkets == 3          \* setMarket calls a session makes
MaxSignals == 2          \* signals a session emits

WindowTicks      == 10   \* calibration.js:208, 300_000 ms
MinExpiryTicks   == 1    \* calibration.js:387, 1 / 120 h
ExpiryGuardTicks == 2    \* calibration.js:293, 1 / 60 h
EndOfDayTicks    == 60   \* calibration.js:394, 0.5 h, the least the fallback returns
StaleMs          == 1000 \* calibration.js:318

\* endDate of the markets discovery hands to setMarket; null: none given.
EndDates == {Null, Some(3), Some(5), Some(13)}
\* data.mid and data.timestamp (ms) of the spot feed.
SpotTicks == [mid : {100, 101}, timestamp : {1000, 2001, 6001}]
\* book.mid (cents; 0: an empty book) and book.timestamp of the contract feed.
ContractBooks == [mid : {0, 54}, timestamp : {1000}]
\* What the market offers at an evaluation: "none": the raw or the smoothed
\* edge is below entryThreshold; "edge": both reach it but
\* calculatePositionSize returns null; "sized": both reach it and a size
\* comes back; "saturated": the same with impliedProbability above 0.90.
Offers == {"none", "edge", "sized", "saturated"}

\* Line 296: modelProb, in percent, as impliedProbability returned it.
ModelProbOf(offer) == IF offer = "saturated" THEN 95 ELSE 65

\* JavaScript truthiness of a number that may be null.
Truthy(x) == x # Null /\ x[1] # 0

\* Lines 384-395: hours to expiry, in ticks.
EstimateHoursToExpiry(s, t) ==
    IF s.marketEndDate # Null
    THEN Max(s.marketEndDate[1] - t, MinExpiryTicks)
    ELSE EndOfDayTicks

\* Line 280 read as `marketSetCount < 1`.
StartupOverAtFirstMarket(s) == s.marketSetCount >= 1

\* Line 280: if (this.marketSetCount <= 1) return;
StartupOver(s) == s.marketSetCount > 1

\* Lines 332-376 and 379: the signal object, its fields about expiry, the
\* guards and the sizing.  bankroll: the first argument of
\* calculatePositionSize, CONFIG.risk.bankroll (line 324).  It has no
\* isCertainty and no expiresAt field.  marketSetCount: the setMarket call
\* whose tokenIdYes / tokenIdNo the signal's tokenId is taken from (lines
\* 333-335).
NewSignal(s, hoursToExpiry, feedLag, offer) ==
    [hoursToExpiry |-> hoursToExpiry, strikePrice |-> s.marketOpenStrike,
     marketSetCount |-> s.marketSetCount,
     feedLag |-> feedLag, modelProb |-> ModelProbOf(offer),
     bankroll |-> Bankroll0,
     isCertainty |-> Null, expiresAt |-> Null]

\* How an evaluation ended, and on what offer.
Ended(s, end, offer) == [s EXCEPT !.lastEval = [end |-> end, offer |-> offer]]

\* Lines 273-381: _evaluate() at time t.
Evaluate(s, t, offer) ==
    IF ~Truthy(s.spotPrice) \/ ~Truthy(s.contractMid)
    THEN Ended(s, "unset", offer)
    ELSE IF ~StartupOver(s)
    THEN Ended(s, "startup", offer)
    ELSE IF s.marketWindowStart # Null /\ t < s.marketWindowStart[1]
    THEN Ended(s, "prewindow", offer)
    ELSE IF ~Truthy(s.marketOpenStrike)
    THEN Ended(s, "nostrike", offer)
    ELSE LET hoursToExpiry == EstimateHoursToExpiry(s, t)
             feedLag == IF s.lastSpotUpdate >= s.lastContractUpdate
                        THEN s.lastSpotUpdate - s.lastContractUpdate
                        ELSE s.lastContractUpdate - s.lastSpotUpdate
             isStale == feedLag > StaleMs
         IN IF hoursToExpiry < ExpiryGuardTicks
            THEN Ended(s, "expiry", offer)
            ELSE IF offer # "none" /\ isStale /\ s.onSignal
            THEN IF offer = "edge"
                 THEN Ended(s, "nosize", offer)
                 ELSE [Ended(s, "signal", offer) EXCEPT
                         !.signalCount = @ + 1,
                         !.lastSignal = Some(NewSignal(s, hoursToExpiry,
                                                       feedLag, offer))]
            ELSE Ended(s, "quiet", offer)

StrategyStep(s) ==
    /\ strat' = s
    /\ UNCHANGED << oracle, expiry, dryRun, now, gate, poll, booted, snapshots, trade,
                    openOrders, risk, pnlStats, tradeHistory, tradeEvents,
                    riskCalls, alerts, fillRateStats, exe, monitor, proc,
                    aged, safetyLog, shutdown, rotation >>

\* Lines 202-221: setMarket({tokenIdYes, tokenIdNo, endDate}).  It leaves
\* contractMid and lastContractUpdate as they are; contractFresh records
\* that the book kept is now one of an earlier market.
SetMarket(endDate) ==
    /\ strat.marketSetCount < MaxMarkets
    /\ StrategyStep([strat EXCEPT
          !.marketEndDate = endDate,
          !.marketWindowStart = IF endDate # Null
                                THEN Some(endDate[1] - WindowTicks) ELSE Null,
          !.marketOpenStrike = Null,
          !.contractFresh = FALSE,
          !.marketSetCount = @ + 1])

\* Lines 223-225: onSignal(handler).
RegisterHandler ==
    /\ ~strat.onSignal
    /\ StrategyStep([strat EXCEPT !.onSignal = TRUE])

\* A capture that does not look at the window start.
CaptureStrikeBeforeWindow(s, mid, t) ==
    IF s.marketOpenStrike = Null /\ s.marketEndDate # Null
    THEN Some(mid) ELSE s.marketOpenStrike

\* Lines 233-242: marketOpenStrike after a spot tick with `mid` at time t.
CaptureStrike(s, mid, t) ==
    LET windowOpen == s.marketWindowStart = Null
                      \/ t >= s.marketWindowStart[1]
    IN IF s.marketOpenStrike = Null /\ s.marketEndDate # Null /\ windowOpen
       THEN Some(mid) ELSE s.marketOpenStrike

\* Lines 228-253: onSpotUpdate(data).
OnSpotUpdate(data, offer) ==
    /\ strat.signalCount < MaxSignals
    /\ LET s == [strat EXCEPT
                   !.spotPrice = Some(data.mid),
                   !.lastSpotUpdate = data.timestamp,
                   !.marketOpenStrike = CaptureStrike(strat, data.mid, now)]
       IN StrategyStep(Evaluate(s, now, offer))

\* Lines 255-270: onContractUpdate(book).
OnContractUpdate(book, offer) ==
    /\ strat.signalCount < MaxSignals
    /\ LET s == [strat EXCEPT !.contractMid = Some(book.mid),
                              !.contractFresh = TRUE,
                              !.lastContractUpdate = book.timestamp]
       IN StrategyStep(Evaluate(s, now, offer))

InitStrategy == InitWith(NoIds, 0, Bankroll0, 0, {"none"}) /\ ~dryRun

NextStrategy ==
    \/ \E endDate \in EndDates : SetMarket(endDate)
    \/ RegisterHandler
    \/ \E data \in SpotTicks, offer \in Offers : OnSpotUpdate(data, offer)
    \/ \E book \in ContractBooks, offer \in Offers : OnContractUpdate(book, offer)
    \/ Tick

\* One Strategy fed by the spot and contract feeds across market rotations.
SpecStrategy == InitStrategy /\ [][NextStrategy]_vars

\* ------------------------------------------------------------------ C23
\* C23: while marketSetCount <= 1, that is until setMarket has been called
\* a second time, the Strategy has emitted no signal, whatever spot and
\* contract updates it was fed: signalCount is 0, no signal object exists
\* and the last evaluation did not end in one.
C23_StartupSuppressed ==
    strat.marketSetCount <= 1
    => /\ strat.signalCount = 0
       /\ strat.lastSignal = Null
       /\ strat.lastEval.end # "signal"

\* After the first setMarket only: the window start is in the past, the
\* strike is captured, both prices are set, a handler is registered, the
\* contract feed lags the spot feed by more than 1 s, more than 60 s
\* remain, and the last evaluation, offered an edge above the threshold
\* with a size, ended at the startup guard.
C23_Witness ==
    /\ strat.marketSetCount = 1
    /\ strat.marketWindowStart # Null
    /\ strat.marketWindowStart[1] <= now
    /\ strat.marketEndDate[1] - now > ExpiryGuardTicks
    /\ Truthy(strat.marketOpenStrike)
    /\ Truthy(strat.spotPrice) /\ Truthy(strat.contractMid)
    /\ strat.onSignal
    /\ strat.lastSpotUpdate - strat.lastContractUpdate > StaleMs
    /\ strat.lastEval = [end |-> "startup", offer |-> "sized"]
    /\ strat.signalCount = 0

\* ------------------------------------------------------------------ C24
\* C24: no latency-arb signal is emitted when 60 s or less remain to the
\* market's expiry, and a signal emitted with 0 < secondsToExpiry <= 90 is
\* a certainty-arb signal: every signal emitted with 90 s (3 ticks) or
\* less to marketEndDate has isCertainty = true and expiresAt set.
C24_NoLatencyArbNearExpiry ==
    [][( /\ strat'.signalCount > strat.signalCount
         /\ strat.marketEndDate # Null
         /\ strat.marketEndDate[1] - now <= 3 )
       => /\ strat'.lastSignal[1].isCertainty = Some(TRUE)
          /\ strat'.lastSignal[1].expiresAt # Null]_vars

\* ------------------------------------------------------------------ C31
\* C31: _waitForFill always terminates when every getOrder call returns or
\* throws in finite time: a call that is polling or at its final fetch
\* eventually returns a FillResult; the loop makes at most MaxPolls polls
\* before the deadline (every poll that keeps the loop going uses one up)
\* and the final fetch is followed by the return; and when every getOrder
\* call of the call threw, the result is TIMEOUT with filledQty = 0 and
\* avgPrice = null.
C31_WaitForFillTerminates ==
    /\ [](( /\ poll.pc = "returned"
            /\ poll.threw
            /\ ~poll.answered )
          => poll.result = Some([status |-> "TIMEOUT", avgPrice |-> Null,
                                 filledQty |-> 0]))
    /\ [](poll.pc = "returned" => poll.result # Null)
    /\ [][( /\ poll.pc = "polling" /\ poll' # poll
            => /\ poll'.pc \in {"polling", "final", "returned"}
               /\ poll'.pc = "polling"
                    => poll'.left = poll.left - 1 /\ poll'.left >= 1 )
          /\ ( poll.pc = "final" /\ poll' # poll => poll'.pc = "returned" )]_vars
    /\ (poll.pc \in {"polling", "final"}) ~> (poll.pc = "returned")

\* Every poll before the deadline and the final fetch threw, and the call
\* returned TIMEOUT.
C31_Witness ==
    /\ poll.pc = "returned"
    /\ ~dryRun
    /\ poll.left = 0
    /\ poll.threw /\ ~poll.answered
    /\ poll.result = Some([status |-> "TIMEOUT", avgPrice |-> Null,
                           filledQty |-> 0])

\* ======================================================= restorePositions
RestoreIds == 1..2

\* A saved state of up to two positions, each fresh, aged or stale.
InitRestore == InitWith(RestoreIds, 2, Bankroll0, 0, {"none"})

\* restorePositions on every such saved state.
SpecRestore == InitRestore /\ [][RestorePositions]_vars

\* The ids of the snapshots older than MAX_HOLD_MS + 60 s, and of the rest.
StaleIds == { snapshots[i].id : i \in { j \in 1..Len(snapshots) :
                                          snapshots[j].age = "stale" } }
KeptIds  == { snapshots[i].id : i \in { j \in 1..Len(snapshots) :
                                          snapshots[j].age # "stale" } }

\* ------------------------------------------------------------------ C32
\* C32: restorePositions never calls risk.openPosition.  For each snapshot
\* older than MAX_HOLD_MS + 60 s it inserts nothing into openOrders and
\* calls risk.closePosition(id, 0) exactly once; for every other snapshot
\* it inserts one OPEN trade into openOrders and arms its monitor and its
\* safety timeout, and the position's entry in risk.openPositions is
\* untouched.  The risk manager gets no new position, and its bankroll
\* changes by what closePosition(id, 0) releases for the stale ids only.
C32_RestoreNeverOpens ==
    [][~booted /\ booted' =>
         /\ \A t \in StaleIds :
              /\ ~Has(openOrders', t)
              /\ trade'[t] = trade[t]
              /\ monitor'[t] = "off"
              /\ riskCalls'[t] = Append(riskCalls[t], 0)
              /\ t \notin DOMAIN risk'.openPositions
         /\ \A t \in KeptIds :
              /\ Count(openOrders', t) = 1
              /\ trade'[t].status = "OPEN"
              /\ monitor'[t] = "on"
              /\ proc'[t].mon.pc = "idle" /\ proc'[t].saf.pc = "armed"
              /\ riskCalls'[t] = riskCalls[t]
              /\ t \in DOMAIN risk.openPositions
                   => /\ t \in DOMAIN risk'.openPositions
                      /\ risk'.openPositions[t] = risk.openPositions[t]
         /\ Len(openOrders') = Cardinality(KeptIds)
         /\ DOMAIN risk'.openPositions = DOMAIN risk.openPositions \ StaleIds
         /\ risk'.bankroll = risk.bankroll + SumSizes(risk.openPositions, StaleIds)
         /\ StaleIds = {} => risk' = risk]_vars

\* Restored from a saved state of one stale and one live position: the
\* stale one was closed at 0 with the risk manager, the live one is OPEN
\* in openOrders with its timers armed.
C32_Witness ==
    /\ booted
    /\ Len(snapshots) = 2
    /\ snapshots[1].age = "stale" /\ snapshots[2].age = "aged"
    /\ openOrders = <<2>>
    /\ trade[2].status = "OPEN" /\ monitor[2] = "on"
    /\ riskCalls[1] = <<0>> /\ riskCalls[2] = <<>>
    /\ DOMAIN risk.openPositions = {2}

\* ------------------------------------------------------------------ C33
\* C33: strike capture per market window.  setMarket resets
\* marketOpenStrike to unset and increments marketSetCount.  For a market
\* with a window start, a spot tick processed at or after
\* marketWindowStart while the strike is unset sets the strike to that
\* tick's mid; a spot tick before marketWindowStart does not set it; a
\* strike that is set is not changed by any spot or contract update until
\* the next setMarket.  A signal is emitted only with the strike set and
\* only at or after marketWindowStart.
C33_StrikePerWindow ==
    [][/\ strat'.marketSetCount # strat.marketSetCount
            => /\ strat'.marketOpenStrike = Null
               /\ strat'.marketSetCount = strat.marketSetCount + 1
       /\ ( strat'.marketSetCount = strat.marketSetCount
            /\ strat.marketOpenStrike # Null )
            => strat'.marketOpenStrike = strat.marketOpenStrike
       /\ ( /\ strat'.marketSetCount = strat.marketSetCount
            /\ strat.marketOpenStrike = Null
            /\ strat'.marketOpenStrike # Null )
            => /\ strat'.marketOpenStrike = strat'.spotPrice
               /\ strat.marketWindowStart # Null
                    => now >= strat.marketWindowStart[1]
       /\ ( /\ strat.marketOpenStrike = Null
            /\ strat.marketWindowStart # Null
            /\ now >= strat.marketWindowStart[1] )
            => \A data \in SpotTicks, offer \in Offers :
                 ( /\ strat'.spotPrice = Some(data.mid)
                   /\ strat'.lastSpotUpdate = data.timestamp
                   /\ strat'.lastEval.offer = offer
                   /\ OnSpotUpdate(data, offer) )
                 => strat'.marketOpenStrike = Some(data.mid)
       /\ strat'.signalCount > strat.signalCount
            => /\ strat'.marketOpenStrike # Null
               /\ strat'.lastSignal[1].strikePrice = strat'.marketOpenStrike
               /\ strat.marketWindowStart # Null
                    => now >= strat.marketWindowStart[1]]_vars

\* In the second market, whose window opened after the session began, the
\* strike is the mid of the first tick after the window start (100); the
\* later tick with mid 101 left it alone, and a signal went out on it.
C33_Witness ==
    /\ strat.marketSetCount = 2
    /\ strat.marketWindowStart # Null
    /\ strat.marketWindowStart[1] > 0
    /\ strat.marketOpenStrike = Some(100)
    /\ strat.spotPrice = Some(101)
    /\ strat.signalCount = 1
    /\ strat.lastSignal[1].strikePrice = Some(100)

\* ------------------------------------------------------------------ C34
\* C34: a latency-arb signal is emitted only when the feed lag is above
\* 1000 ms and at most 5000 ms and modelProb is at most 0.90: every
\* emitted signal has 1000 < feedLag <= 5000 and modelProb <= 90 %.
C34_SignalGuards ==
    [][strat'.signalCount > strat.signalCount
       => /\ strat'.lastSignal[1].feedLag > StaleMs
          /\ strat'.lastSignal[1].feedLag <= 5000
          /\ strat'.lastSignal[1].modelProb <= 90]_vars

\* ================================================= sizing and the bankroll
SizingIds == {1}

InitSizing == InitWith(SizingIds, 0, Bankroll0, 0, {"none"})

\* A Strategy on an open market beside an executor that opens a position
\* for up to MaxQty tokens and closes it at mark.
NextSizing ==
    \/ RestorePositions
    \/ \E sig \in Signals : ExecuteStart(1, sig)
    \/ \E ok \in BOOLEAN : ExecutePlaced(1, ok)
    \/ \E ok \in BOOLEAN :
         \E fill \in FillResults(exe[1].req, EntryAvgPrices) : ExecuteFill(1, fill, ok)
    \/ CancelAllStart
    \/ \E ok \in BOOLEAN : CancelAllDone(ok)
    \/ SetMarket(Some(5))
    \/ RegisterHandler
    \/ OnSpotUpdate([mid |-> 100, timestamp |-> 2001], "sized")
    \/ OnContractUpdate([mid |-> 54, timestamp |-> 1000], "sized")

SpecSizing == InitSizing /\ [][NextSizing]_vars

\* ------------------------------------------------------------------ C35
\* C35: the bankroll a signal is sized from is the risk manager's bankroll
\* at the moment of the evaluation, whatever opens and closes came before.
C35_SizedFromLiveBankroll ==
    [][strat'.signalCount > strat.signalCount
       => strat'.lastSignal[1].bankroll = risk.bankroll]_vars

\* ------------------------------------------------------------------ C36
\* C36: when the confirming fill of an entry has no usable avgPrice, the
\* trade opens with entryPrice = signal.entryPrice, on every entry path
\* (direct take, maker order, maker reprice, take after the maker order
\* was exhausted).
C36_FallbackToSignalPrice ==
    [][\A t \in TradeIds :
         ( /\ ExecuteCreates(t)
           /\ exe'[t].fill # Null
           /\ exe'[t].fill[1].avgPrice = Null )
         => trade'[t].entryPrice = SignalEntryPrice]_vars

\* ==================================================== fetchPriceAtTimestamp
MAX_LOOKBACK == 120     \* part_000:204

\* The feed: aggregator round r of the current phase was updated at second
\* 10 * r.  Heads: the aggregator round latestRoundData reports.
OracleHeads   == {1, 3, 121, 123}
\* Aggregator rounds whose getRoundData call fails on every RPC.
OracleGaps    == SUBSET {2, 3, 122}
\* targetTimestampSec, and Math.floor(Date.now() / 1000).
OracleTargets == {5, 10, 25, 30, 35, 1215, 1225, 1230, 1241, 1242}
OracleClocks  == {1240}

UpdatedAt(r) == 10 * r

\* A found round as the function returns it: updatedAt, roundId, and how
\* many rounds back from the latest it was found.
RoundResult(r, i) == [updatedAt |-> UpdatedAt(r), roundId |-> r, roundsBack |-> i]

\* The least number in a non-empty set of numbers.
Least(S) == CHOOSE i \in S : \A j \in S : i <= j

\* The backward walk with a failed lookup ending the search.
WalkBackNoSkip(c, from) ==
    LET stops == { i \in from..MAX_LOOKBACK :
                     \/ c.latestAgg - i < 1
                     \/ c.latestAgg - i \in c.gaps
                     \/ UpdatedAt(c.latestAgg - i) <= c.target }
    IN IF stops = {} THEN Null
       ELSE LET i == Least(stops)
            IN IF c.latestAgg - i < 1 \/ c.latestAgg - i \in c.gaps
               THEN Null
               ELSE Some(RoundResult(c.latestAgg - i, i))

\* Lines 204-231: the backward walk for i = from..MAX_LOOKBACK.  The loop
\* ends at the first i whose round is below 1 (break) or answers with
\* updatedAt <= target (return); a failed lookup goes on to the next i.
WalkBack(c, from) ==
    LET stops == { i \in from..MAX_LOOKBACK :
                     \/ c.latestAgg - i < 1
                     \/ /\ c.latestAgg - i \notin c.gaps
                        /\ UpdatedAt(c.latestAgg - i) <= c.target }
    IN IF stops = {} THEN Null
       ELSE LET i == Least(stops)
            IN IF c.latestAgg - i < 1
               THEN Null
               ELSE Some(RoundResult(c.latestAgg - i, i))

\* Lines 169-237: what fetchPriceAtTimestamp returns on the call c.
PriceAtTimestamp(c) ==
    IF ~c.known THEN Null
    ELSE IF ~c.latestOk THEN Null
    ELSE IF c.target > c.nowSec + 1 THEN Null
    ELSE IF UpdatedAt(c.latestAgg) <= c.target
    THEN Some(RoundResult(c.latestAgg, 0))
    ELSE WalkBack(c, 1)

\* fetchPriceAtTimestamp(asset, targetTimestampSec) runs to its return.
FetchPriceAtTimestamp(known, latestOk, latestAgg, gaps, target, nowSec) ==
    /\ oracle.pc = "off"
    /\ LET c == [IdleOracle EXCEPT !.known = known, !.latestOk = latestOk,
                                   !.latestAgg = latestAgg, !.gaps = gaps,
                                   !.target = target, !.nowSec = nowSec]
       IN oracle' = [c EXCEPT !.pc = "returned", !.result = PriceAtTimestamp(c)]
    /\ UNCHANGED << strat, expiry, dryRun, now, gate, poll, booted, snapshots,
                    trade, openOrders, risk, pnlStats, tradeHistory,
                    tradeEvents, riskCalls, alerts, fillRateStats, exe,
                    monitor, proc, aged, safetyLog, shutdown, rotation >>

InitOracle == InitWith(NoIds, 0, Bankroll0, 0, {"none"}) /\ ~dryRun

NextOracle ==
    \E known \in BOOLEAN, latestOk \in BOOLEAN, latestAgg \in OracleHeads,
       gaps \in OracleGaps, target \in OracleTargets, nowSec \in OracleClocks :
        FetchPriceAtTimestamp(known, latestOk, latestAgg, gaps, target, nowSec)

\* One fetchPriceAtTimestamp call on every feed, target and clock above.
SpecOracle == InitOracle /\ [][NextOracle]_vars

\* The rounds the search can see: the latest, and the rounds up to
\* MAX_LOOKBACK behind it whose lookup answers.
Visible(c) ==
    { r \in 1..c.latestAgg :
        /\ c.latestAgg - r <= MAX_LOOKBACK
        /\ r = c.latestAgg \/ r \notin c.gaps }

\* ------------------------------------------------------------------ C37
\* C37: fetchPriceAtTimestamp returns null when the target is more than
\* one second in the future.  Otherwise a non-null result is a round with
\* updatedAt <= target, and the most recent such round the search can see:
\* the latest round when latest.updatedAt <= target, else the first one
\* met walking back one aggregator round at a time, at most 120 rounds,
\* rounds whose lookup fails being skipped.  It returns null when there is
\* no such round or when latestRoundData fails; it always returns.
C37_PriceAtTimestamp ==
    oracle.pc = "returned" =>
        LET c == oracle
            fit == { r \in Visible(c) : UpdatedAt(r) <= c.target }
        IN IF ~c.known \/ ~c.latestOk \/ c.target > c.nowSec + 1 \/ fit = {}
           THEN c.result = Null
           ELSE /\ c.result # Null
                /\ c.result[1].updatedAt <= c.target
                /\ c.result[1].roundId \in fit
                /\ \A r \in fit : r <= c.result[1].roundId
                /\ c.result[1].updatedAt = UpdatedAt(c.result[1].roundId)
                /\ c.result[1].roundsBack = c.latestAgg - c.result[1].roundId
                /\ c.result[1].roundsBack <= MAX_LOOKBACK
                /\ UpdatedAt(c.latestAgg) <= c.target
                     => c.result[1].roundId = c.latestAgg

\* The round found is exactly MAX_LOOKBACK rounds behind the latest, after
\* a failed lookup on the way was skipped.
C37_Witness ==
    /\ oracle.pc = "returned"
    /\ oracle.latestAgg = 123 /\ oracle.gaps = {122}
    /\ oracle.target = 35
    /\ oracle.result = Some([updatedAt |-> 30, roundId |-> 3, roundsBack |-> 120])

C39_LifecycleOrder ==
    /\ [](\A t \in TradeIds \ SnapshotIds :
            LET ev == tradeEvents[t]
            IN ev # <<>> =>
                 /\ ev[1].type = "open"
                 /\ \A i \in 2..Len(ev) : ev[i].type \in {"partial_close", "close"}
                 /\ \A i \in 1..Len(ev) : ev[i].type = "close" => i = Len(ev))
    /\ [][\A t \in TradeIds \ SnapshotIds :
            CloseCount(t) >= 1
            => /\ tradeEvents'[t] = tradeEvents[t]
               /\ riskCalls'[t] = riskCalls[t]]_vars

\* ------------------------------------------------------------------ C40
\* C40: after setMarket has rotated the Strategy to a new market, no signal
\* is emitted for that market until a contract book update has been
\* received after the rotation: an evaluation that ends in a signal, whose
\* tokenId is the one of the current market, computes its edge, entry price
\* and liquidity from a book written after the last setMarket.
C40_NoSignalOnPreviousBook ==
    strat.lastEval.end = "signal" => strat.contractFresh

=============================================================================
